---- MODULE Spec2Model ----
(***************************************************************************)
(* Period data ingestion of socio-founds-backend: the four file upload     *)
(* handlers of src/src/controllers/upload.controller.ts (balance sheet,    *)
(* cash flow, membership fees, ratios), the tables they write through      *)
(* prisma, the UploadHistory ledger and its two query handlers, and the    *)
(* ERP connector of src/src/services/odoo.service.ts (configuration cache, *)
(* authentication and the three fetches).                                  *)
(*                                                                         *)
(* Every `await prisma...` of a handler is one atomic step at the          *)
(* database; handlers of different requests interleave at these steps.     *)
(* A storage call may throw; the handler's catch then answers 500.         *)
(***************************************************************************)
EXTENDS Integers, Sequences, FiniteSets, TLC

(* ------------------------------ bounds -------------------------------- *)

\* number of request workers that can be in flight together
NumSlots == 2
\* total number of upload requests started in one behaviour
MaxRequests == 2
\* number of most recent responses kept for observation
MaxAnswered == 2

Slots == 1..NumSlots

(* --------------------------- input domains ---------------------------- *)

CoopIds == {"c1", "c2"}
AdminId == "u1"

Modules == {"balance_sheet", "cash_flow", "membership_fees", "ratios"}

\* text cells that parseFloat reads as a number; every other text is NaN
NumTable == [t \in {"0", "300", "500"} |->
               IF t = "0" THEN 0 ELSE IF t = "300" THEN 300 ELSE 500]

\* an uploaded file that parseFile reads as the given rows
FileOf(rows) == [attached |-> TRUE, readable |-> TRUE, rows |-> rows]
\* an uploaded file on which XLSX.read throws
UnreadableFile == [attached |-> TRUE, readable |-> FALSE, rows |-> <<>>]
\* multer attached no file to the request
NoFile == [attached |-> FALSE, readable |-> FALSE, rows |-> <<>>]

\* a field of a row whose column is not in the sheet: mapRow sets no such key
\* and the handler reads undefined, which String() turns into this text
Undefined == "undefined"

\* rows as mapRow leaves them (sheet_to_json fills missing cells with "")
BalanceRowA == [accountCode |-> "1101", accountName |-> "Caja",
                category |-> "Activo", amount |-> "500", parentAccount |-> ""]
BalanceRowB == [accountCode |-> "2101", accountName |-> "Proveedores",
                category |-> "pasivo", amount |-> "300", parentAccount |-> "21"]
BalanceRowC == [accountCode |-> "3101", accountName |-> "Capital",
                category |-> "patrimonio", amount |-> "300", parentAccount |-> ""]
BalanceRowD == [accountCode |-> "2102", accountName |-> "Prestamos",
                category |-> "Pasivo", amount |-> "n/a", parentAccount |-> "21"]
BalanceRowNoCode == [accountCode |-> "", accountName |-> "Sin codigo",
                     category |-> "activo", amount |-> "300", parentAccount |-> ""]

CashRowA == [description |-> "Ventas", category |-> "operacion", amount |-> "500"]
CashRowB == [description |-> "Equipo", category |-> "Inversion", amount |-> "300"]
CashRowNoCategory == [description |-> "Otros", category |-> "", amount |-> "300"]

FeeRowA == [memberId |-> "m1", memberName |-> "Ana", expectedContribution |-> "500",
            paymentMade |-> "500", status |-> "pagado"]
FeeRowB == [memberId |-> "m2", memberName |-> "Luis", expectedContribution |-> "500",
            paymentMade |-> "300", status |-> ""]
FeeRowNoName == [memberId |-> "m3", memberName |-> "", expectedContribution |-> "300",
                 paymentMade |-> "0", status |-> "pendiente"]

RatioRowA == [name |-> "Liquidez", value |-> "300", trend |-> "Subiendo",
              description |-> "Capacidad de pago"]
RatioRowB == [name |-> "Liquidez", value |-> "500", trend |-> "", description |-> ""]
RatioRowC == [name |-> "Endeudamiento", value |-> "500", trend |-> "down",
              description |-> ""]
RatioRowNoName == [name |-> "", value |-> "300", trend |-> "up", description |-> ""]
RatioRowNoValue == [name |-> "Margen", value |-> "", trend |-> "estable",
                    description |-> ""]
RatioRowNoValueColumn == [name |-> "Margen", value |-> Undefined, trend |-> "up",
                          description |-> ""]

\* an upload request as the handler reads it from req.body and req.file
Input(cooperativeId, module, overwrite, file) ==
  [cooperativeId |-> cooperativeId, year |-> 2025, month |-> 6,
   module |-> module, overwrite |-> overwrite, file |-> file]

\* the same for any period key; parseInt leaves NaN, which `!year` treats
\* as 0, for a missing or non-numeric year or month
InputAt(cooperativeId, year, month, module, overwrite, file) ==
  [cooperativeId |-> cooperativeId, year |-> year, month |-> month,
   module |-> module, overwrite |-> overwrite, file |-> file]

\* the requests of the model: the balance sheet of c1 with a clean file, a
\* file with a row to reject, a file of rejected rows only, an empty and an
\* unreadable file; the other modules and another cooperative with one file
RequestInputs ==
  { Input("c1", "balance_sheet", FALSE, FileOf(<<BalanceRowA>>)),
    Input("c1", "balance_sheet", TRUE, FileOf(<<BalanceRowB, BalanceRowNoCode>>)),
    Input("c1", "balance_sheet", TRUE, FileOf(<<BalanceRowNoCode>>)),
    Input("c1", "balance_sheet", TRUE, FileOf(<<>>)),
    Input("c1", "balance_sheet", FALSE, UnreadableFile),
    Input("c1", "cash_flow", FALSE, FileOf(<<CashRowA>>)),
    Input("c1", "cash_flow", TRUE, FileOf(<<CashRowB, CashRowNoCategory>>)),
    Input("c1", "membership_fees", FALSE, FileOf(<<FeeRowB, FeeRowNoName>>)),
    Input("c2", "balance_sheet", FALSE, FileOf(<<BalanceRowA>>)) }

(* ------------------------- record normalizer -------------------------- *)

RECURSIVE SelectSeqBy(_, _)
\* Array.prototype.filter with a predicate given as the set of kept values
SelectSeqBy(s, keep) ==
  IF s = <<>> THEN <<>>
  ELSE IF Head(s) \in keep THEN <<Head(s)>> \o SelectSeqBy(Tail(s), keep)
       ELSE SelectSeqBy(Tail(s), keep)

\* JavaScript truthiness of a text cell
Truthy(cell) == cell \notin {"", Undefined}

\* parseFloat(cell) || 0
ParseFloatOrZero(cell) == IF cell \in DOMAIN NumTable THEN NumTable[cell] ELSE 0

\* the keys every object literal inherits: a lookup of one of them in a map
\* written as an object literal finds a member of Object.prototype
InheritedKeys == {"constructor", "__proto__"}

\* what such a lookup returns: a function or an object, truthy and no string
ObjectMember == "[object]"

\* String(cell).toLowerCase() over the tokens of the input domain
ToLowerCase(cell) ==
  CASE cell = "Activo" -> "activo"
    [] cell = "Inversion" -> "inversion"
    [] cell = "Pagado" -> "pagado"
    [] cell = "PENDIENTE" -> "pendiente"
    [] cell = "Subiendo" -> "subiendo"
    [] OTHER -> cell

\* records.filter(...) of the four handlers
ValidRecords(module, records) ==
  CASE module = "balance_sheet" ->
         SelectSeqBy(records, {r \in {records[i] : i \in 1..Len(records)} :
                                 Truthy(r.accountCode) /\ Truthy(r.accountName)})
    [] module = "cash_flow" ->
         SelectSeqBy(records, {r \in {records[i] : i \in 1..Len(records)} :
                                 Truthy(r.description) /\ Truthy(r.category)})
    [] module = "membership_fees" ->
         SelectSeqBy(records, {r \in {records[i] : i \in 1..Len(records)} :
                                 Truthy(r.memberId) /\ Truthy(r.memberName)})
    [] module = "ratios" ->
         SelectSeqBy(records, {r \in {records[i] : i \in 1..Len(records)} :
                                 Truthy(r.name) /\ r.value # Undefined})

\* categoryMap of uploadBalanceSheet, with its `|| assets` default
BalanceCategoryOf(cell) ==
  CASE ToLowerCase(cell) = "activo" -> "assets"
    [] ToLowerCase(cell) = "pasivo" -> "liabilities"
    [] ToLowerCase(cell) = "patrimonio" -> "equity"
    [] ToLowerCase(cell) \in InheritedKeys -> ObjectMember
    [] OTHER -> "assets"

\* categoryMap of uploadCashFlow, with its `|| operating` default
CashFlowCategoryOf(cell) ==
  CASE ToLowerCase(cell) = "operacion" -> "operating"
    [] ToLowerCase(cell) = "inversion" -> "investing"
    [] ToLowerCase(cell) = "financiamiento" -> "financing"
    [] ToLowerCase(cell) \in InheritedKeys -> ObjectMember
    [] OTHER -> "operating"

\* a fallback that is with_debt whatever the debt
FeeStatusDefaultDebt(cell, debt) ==
  CASE ToLowerCase(cell) = "pagado" -> "up_to_date"
    [] OTHER -> "with_debt"

\* a status taken from the debt alone
FeeStatusByDebt(cell, debt) == IF debt > 0 THEN "with_debt" ELSE "up_to_date"

\* statusMap of uploadMembershipFees, with its fallback on the computed debt
FeeStatusOf(cell, debt) ==
  CASE ToLowerCase(cell) = "pagado" -> "up_to_date"
    [] ToLowerCase(cell) \in {"parcial", "pendiente", "atrasado"} -> "with_debt"
    [] ToLowerCase(cell) \in InheritedKeys -> ObjectMember
    [] OTHER -> IF debt > 0 THEN "with_debt" ELSE "up_to_date"

\* trendMap of uploadRatios, with its `|| stable` default
TrendOf(cell) ==
  CASE ToLowerCase(cell) \in {"up", "subiendo"} -> "up"
    [] ToLowerCase(cell) \in {"down", "bajando"} -> "down"
    [] ToLowerCase(cell) \in {"stable", "estable"} -> "stable"
    [] ToLowerCase(cell) \in InheritedKeys -> ObjectMember
    [] OTHER -> "stable"

\* a balance sheet row that carries the amount of a liability or of equity
\* on its credit side
ToEntryBySide(module, cooperativeId, year, month, r) ==
  LET credit == BalanceCategoryOf(r.category) # "assets"
  IN [cooperativeId |-> cooperativeId, year |-> year, month |-> month,
      accountCode |-> r.accountCode, accountName |-> r.accountName,
      category |-> BalanceCategoryOf(r.category),
      subcategory |-> IF Truthy(r.parentAccount) THEN r.parentAccount ELSE "null",
      initialDebit |-> 0, initialCredit |-> 0, periodDebit |-> 0,
      periodCredit |-> 0,
      finalDebit |-> IF credit THEN 0 ELSE ParseFloatOrZero(r.amount),
      finalCredit |-> IF credit THEN ParseFloatOrZero(r.amount) ELSE 0]

\* the row createMany (for ratios: upsert) receives for one valid record
ToEntry(module, cooperativeId, year, month, r) ==
  CASE module = "balance_sheet" ->
         [cooperativeId |-> cooperativeId, year |-> year, month |-> month,
          accountCode |-> r.accountCode, accountName |-> r.accountName,
          category |-> BalanceCategoryOf(r.category),
          subcategory |-> IF Truthy(r.parentAccount) THEN r.parentAccount ELSE "null",
          initialDebit |-> 0, initialCredit |-> 0, periodDebit |-> 0,
          periodCredit |-> 0, finalDebit |-> ParseFloatOrZero(r.amount),
          finalCredit |-> 0]
    [] module = "cash_flow" ->
         [cooperativeId |-> cooperativeId, year |-> year, month |-> month,
          description |-> r.description,
          category |-> CashFlowCategoryOf(r.category),
          amount |-> ParseFloatOrZero(r.amount)]
    [] module = "membership_fees" ->
         LET expected == ParseFloatOrZero(r.expectedContribution)
             paid == ParseFloatOrZero(r.paymentMade)
             debt == expected - paid
         IN [cooperativeId |-> cooperativeId, year |-> year, month |-> month,
             memberId |-> r.memberId, memberName |-> r.memberName,
             expectedContribution |-> expected, paymentMade |-> paid,
             debt |-> IF debt > 0 THEN debt ELSE 0,
             status |-> FeeStatusOf(r.status, debt)]
    [] module = "ratios" ->
         [cooperativeId |-> cooperativeId, year |-> year, month |-> month,
          name |-> r.name, value |-> ParseFloatOrZero(r.value),
          trend |-> TrendOf(r.trend),
          description |-> IF Truthy(r.description) THEN r.description ELSE "null"]

\* validRecords.map(...) : the batch handed to createMany
Entries(module, cooperativeId, year, month, records) ==
  LET valid == ValidRecords(module, records)
  IN [i \in 1..Len(valid) |-> ToEntry(module, cooperativeId, year, month, valid[i])]

(* ------------------------------- state -------------------------------- *)

VARIABLES
  entries,        \* the four module tables: entries[module] is a sequence of rows
  period,         \* the Period table: a set of [cooperativeId, year, month, isActive]
  uploadHistory,  \* the UploadHistory table, in order of creation
  activityLog,    \* the ActivityLog table, in order of creation
  req,            \* req[slot]: the upload a worker is handling, with its position
  started,        \* the number of requests started so far
  answered,       \* the most recent upload responses, oldest first
  reply,          \* the response of the history query handled by the last step
  odooConfig,     \* the OdooConfig table: odooConfig[cooperativeId]
  connections,    \* OdooService.connections, the cache of connections
  calls,          \* calls[slot]: the OdooService call a caller is waiting for
  returned,       \* what the OdooService call that ended last has returned
  users,          \* the User table: users[id] is [role, status]
  sessions,       \* sessions[slot]: the user management request in progress
  userReply       \* the response of the user management request that ended last

uploadVars == <<entries, period, uploadHistory, activityLog, req, started,
                answered, reply>>
odooVars == <<odooConfig, connections, calls, returned>>
userVars == <<users, sessions, userReply>>
vars == <<entries, period, uploadHistory, activityLog, req, started, answered,
          reply, odooConfig, connections, calls, returned, users, sessions,
          userReply>>

\* positions of a handler: the storage call it is waiting for
StoragePcs == {"findFirst", "deleteMany", "createMany", "ratioUpsert",
               "periodUpsert", "historyCreate", "activityCreate"}

\* a worker that handles no upload
IdleRequest ==
  [pc |-> "idle", cooperativeId |-> "", year |-> 0, month |-> 0, module |-> "",
   overwrite |-> FALSE, file |-> NoFile,
   seq |-> 0, before |-> <<>>, deleted |-> 0, inserted |-> 0, hist |-> <<>>,
   thrown |-> ""]

\* no history query was handled by the last step
NoReply == [sent |-> FALSE, data |-> <<>>]

\* sendError(res, error, statusCode)
SendError(error, statusCode) ==
  [status |-> statusCode, success |-> FALSE, error |-> error, recordsCount |-> 0]

\* sendSuccess(res, {status: 'success', message, recordsCount})
SendSuccess(recordsCount) ==
  [status |-> 200, success |-> TRUE, error |-> "", recordsCount |-> recordsCount]

DataExistsError(module) ==
  IF module = "balance_sheet"
  THEN "Data already exists for this period. Enable overwrite to replace."
  ELSE "Data already exists for this period"

ParseFailedError(module) ==
  IF module = "balance_sheet"
  THEN "Failed to parse file. Please check the file format."
  ELSE "Failed to parse file"

InvalidPeriodError(module) ==
  IF module = "balance_sheet"
  THEN "Valid year and month are required"
  ELSE "Year and month are required"

CatchError(module) ==
  CASE module = "balance_sheet" -> "Failed to upload balance sheet"
    [] module = "cash_flow" -> "Failed to upload cash flow"
    [] module = "membership_fees" -> "Failed to upload membership fees"
    [] module = "ratios" -> "Failed to upload ratios"

\* the guard on year and month: only uploadBalanceSheet bounds the month
PeriodRejected(module, year, month) ==
  IF module = "balance_sheet"
  THEN year = 0 \/ month = 0 \/ month < 1 \/ month > 12
  ELSE year = 0 \/ month = 0

\* where: { cooperativeId, year, month }
Matches(row, cooperativeId, year, month) ==
  row.cooperativeId = cooperativeId /\ row.year = year /\ row.month = month

\* the rows of a table selected by where: { cooperativeId, year, month }
FindMany(table, cooperativeId, year, month) ==
  SelectSeqBy(table, {row \in {table[i] : i \in 1..Len(table)} :
                        Matches(row, cooperativeId, year, month)})

\* a lookup whose year and month arguments are swapped
FindFirstHitSwapped(table, cooperativeId, year, month) ==
  FindMany(table, cooperativeId, month, year) # <<>>

\* an existence check that looks at the period and at no cooperative
FindFirstHitAnyCooperative(table, cooperativeId, year, month) ==
  \E i \in 1..Len(table) : table[i].year = year /\ table[i].month = month

\* findFirst(...) returned a row
FindFirstHit(table, cooperativeId, year, month) ==
  FindMany(table, cooperativeId, year, month) # <<>>

\* a delete that removes no row
DeleteManySkipped(table, cooperativeId, year, month) == table

\* a delete that removes the rows of the cooperative for every period
DeleteManyOfCooperative(table, cooperativeId, year, month) ==
  SelectSeqBy(table, {row \in {table[i] : i \in 1..Len(table)} :
                        row.cooperativeId # cooperativeId})

\* the table after deleteMany({ where: { cooperativeId, year, month } })
DeleteManyFrom(table, cooperativeId, year, month) ==
  SelectSeqBy(table, {row \in {table[i] : i \in 1..Len(table)} :
                        ~Matches(row, cooperativeId, year, month)})

\* the values prisma accepts for the enum and text columns the handlers
\* fill from a lookup; any other value makes the query throw before it runs
Accepts(module, row) ==
  CASE module = "balance_sheet" -> row.category \in {"assets", "liabilities", "equity"}
    [] module = "cash_flow" -> row.category \in {"operating", "investing", "financing"}
    [] module = "membership_fees" -> row.status \in {"up_to_date", "with_debt"}
    [] module = "ratios" -> row.trend # ObjectMember

\* the table after createMany({ data })
CreateManyInto(table, data) == table \o data

\* an upsert that inserts without looking for the record of the key
PeriodCreateInto(periods, cooperativeId, year, month) ==
  periods \cup {[cooperativeId |-> cooperativeId, year |-> year,
                 month |-> month, isActive |-> TRUE]}

\* an upsert that inserts without looking for the row of the key
RatioCreateInto(table, data) == Append(table, data)

\* financialRatio.upsert({ where: key and name, update, create }): the row of
\* the unique key (cooperativeId, year, month, name) takes the new value,
\* trend and description, or the row is created
RatioUpsertInto(table, data) ==
  LET same(row) == /\ Matches(row, data.cooperativeId, data.year, data.month)
                   /\ row.name = data.name
  IN IF \E i \in 1..Len(table) : same(table[i])
     THEN [i \in 1..Len(table) |-> IF same(table[i]) THEN data ELSE table[i]]
     ELSE Append(table, data)

\* period.upsert({ where: key, update: {}, create: key })
PeriodUpsertInto(periods, cooperativeId, year, month) ==
  IF \E p \in periods : Matches(p, cooperativeId, year, month)
  THEN periods
  ELSE periods \cup {[cooperativeId |-> cooperativeId, year |-> year,
                      month |-> month, isActive |-> TRUE]}

\* the data of uploadHistory.create in the success branch of a handler
SuccessRow(q, recordsCount) ==
  [cooperativeId |-> q.cooperativeId, userId |-> AdminId, year |-> q.year,
   month |-> q.month, module |-> q.module, status |-> "success",
   recordsCount |-> recordsCount]

\* a write that replaces the row of the same period and module, when one exists
HistoryUpsertInto(history, data) ==
  LET same(h) == h.cooperativeId = data.cooperativeId /\ h.year = data.year
                 /\ h.month = data.month /\ h.module = data.module
  IN IF \E i \in 1..Len(history) : same(history[i])
     THEN [i \in 1..Len(history) |-> IF same(history[i]) THEN data ELSE history[i]]
     ELSE Append(history, data)

\* the table after uploadHistory.create({ data })
HistoryCreateInto(history, data) == Append(history, data)

\* activityLog.create({ data })
ActivityCreateInto(log, q) == Append(log, [userId |-> AdminId, module |-> q.module])

\* the rows of the unit a request targets
UnitRows(table, q) == FindMany(table, q.cooperativeId, q.year, q.month)

\* the batch a request hands to createMany
Batch(q) == Entries(q.module, q.cooperativeId, q.year, q.month, q.file.rows)

\* validRecords.length
ValidCount(q) == Len(ValidRecords(q.module, q.file.rows))

\* an OdooConfig row: the connection settings of a cooperative
ConfigA == [url |-> "https://erp-a", database |-> "coop", username |-> "admin",
            apiKey |-> "key-a"]
ConfigB == [url |-> "https://erp-b", database |-> "coop", username |-> "admin",
            apiKey |-> "key-b"]
Configs == {ConfigA, ConfigB}

\* no OdooConfig row: findUnique returns null
NoConfig == [url |-> "", database |-> "", username |-> "", apiKey |-> ""]

\* no entry in the connections map
NoConnection == [cached |-> FALSE, config |-> NoConfig, uid |-> 0]

\* a caller that waits for no OdooService call
IdleCall ==
  [op |-> "idle", pc |-> "idle", cooperativeId |-> "", config |-> NoConfig,
   shared |-> FALSE, conn |-> NoConnection, lines |-> <<>>, quiet |-> FALSE]

\* no OdooService call has ended yet
NoResult == [sent |-> FALSE, op |-> "", cooperativeId |-> "", success |-> FALSE,
             records |-> <<>>, error |-> ""]

\* the ERP integration is not configured and not in use
NoOdoo ==
  /\ odooConfig = [c \in CoopIds |-> NoConfig]
  /\ connections = [c \in CoopIds |-> NoConnection]
  /\ calls = [s \in Slots |-> IdleCall]
  /\ returned = NoResult

\* the users of the model
UserIds == {"u1", "u2", "u3"}

\* the users of the seed script, the admin and two members, after the admin
\* has made the first member an admin
SeedUsers ==
  [u \in UserIds |-> [role |-> IF u = "u3" THEN "socio" ELSE "admin",
                       status |-> "active"]]

\* a slot that handles no user management request
IdleSession ==
  [pc |-> "idle", actor |-> "", op |-> "", target |-> "", value |-> ""]

\* no user management request has ended yet
NoUserReply == [sent |-> FALSE, status |-> 0, error |-> ""]

\* the users are as seeded and no user management request is in progress
NoChanges ==
  /\ users = SeedUsers
  /\ sessions = [s \in Slots |-> IdleSession]
  /\ userReply = NoUserReply

\* the data an earlier upload left behind in the seeded initial state
SeedRequest ==
  Input("c1", "balance_sheet", FALSE, FileOf(<<BalanceRowA>>))

\* the database is empty, or holds what the upload of SeedRequest wrote
InitUploads ==
  /\ \E seeded \in BOOLEAN :
       /\ entries = [m \in Modules |->
                       IF seeded /\ m = SeedRequest.module
                       THEN CreateManyInto(<<>>, Batch(SeedRequest)) ELSE <<>>]
       /\ period = IF seeded
                   THEN PeriodUpsertInto({}, SeedRequest.cooperativeId,
                                         SeedRequest.year, SeedRequest.month)
                   ELSE {}
       /\ uploadHistory = IF seeded
                          THEN HistoryCreateInto(<<>>, SuccessRow(SeedRequest,
                                                            ValidCount(SeedRequest)))
                          ELSE <<>>
       /\ activityLog = IF seeded THEN ActivityCreateInto(<<>>, SeedRequest) ELSE <<>>
  /\ req = [r \in Slots |-> IdleRequest]
  /\ started = 0
  /\ answered = <<>>
  /\ reply = NoReply

Init == InitUploads /\ NoOdoo /\ NoChanges

(* ------------------------- the upload handlers ------------------------ *)

\* the response of an upload, with what the attempt observed and did: its
\* arrival number, the rows of its unit on arrival and at the response, the
\* numbers of rows it deleted and inserted, the history rows it wrote, and
\* what threw into its catch: the storage or the validation of a query
Answer(q, res) ==
  [cooperativeId |-> q.cooperativeId, year |-> q.year, month |-> q.month,
   module |-> q.module, overwrite |-> q.overwrite, file |-> q.file,
   seq |-> q.seq, before |-> q.before, after |-> UnitRows(entries[q.module], q),
   deleted |-> q.deleted, inserted |-> q.inserted, hist |-> q.hist,
   thrown |-> q.thrown, res |-> res]

\* the observed responses after one more, the oldest dropped when full
Respond(log, a) ==
  IF Len(log) < MaxAnswered THEN Append(log, a) ELSE Append(Tail(log), a)

\* the position after the delete (or after a check that found nothing):
\* createMany, or the loop of upserts of uploadRatios, is skipped when no
\* record passed the filter
AfterDelete(q) ==
  IF ValidCount(q) = 0 THEN "periodUpsert"
  ELSE IF q.module = "ratios" THEN "ratioUpsert" ELSE "createMany"

\* the synchronous head of uploadBalanceSheet / uploadCashFlow /
\* uploadMembershipFees / uploadRatios: read the inputs, validate, parse, and
\* issue the first storage call (uploadRatios makes no existence check)
Upload(r, in) ==
  /\ req[r].pc = "idle"
  /\ \A r2 \in Slots : r2 < r => req[r2].pc # "idle"
  /\ started < MaxRequests
  /\ started' = started + 1
  /\ LET q == [IdleRequest EXCEPT !.cooperativeId = in.cooperativeId,
                 !.year = in.year, !.month = in.month, !.module = in.module,
                 !.overwrite = in.overwrite, !.file = in.file,
                 !.seq = started + 1,
                 !.before = FindMany(entries[in.module], in.cooperativeId,
                                     in.year, in.month)]
         rejection ==
           IF in.cooperativeId = "" THEN "Cooperative ID required"
           ELSE IF PeriodRejected(in.module, in.year, in.month)
             THEN InvalidPeriodError(in.module)
           ELSE IF ~in.file.attached THEN "No file uploaded"
           ELSE IF ~in.file.readable THEN ParseFailedError(in.module)
           ELSE IF Len(in.file.rows) = 0 THEN "No valid records found in file"
           ELSE ""
     IN IF rejection # ""
        THEN /\ answered' = Respond(answered, Answer(q, SendError(rejection, 400)))
             /\ UNCHANGED req
        ELSE /\ req' = [req EXCEPT ![r] =
                          [q EXCEPT !.pc = IF in.overwrite THEN "deleteMany"
                                           ELSE IF in.module = "ratios"
                                             THEN AfterDelete(q)
                                           ELSE "findFirst"]]
             /\ UNCHANGED answered
  /\ reply' = NoReply
  /\ UNCHANGED <<odooVars, userVars>>
  /\ UNCHANGED <<entries, period, uploadHistory, activityLog>>

\* await prisma.<table>.findFirst(...) and the branch on its result
FindFirst(r) ==
  /\ req[r].pc = "findFirst"
  /\ LET q == req[r]
     IN IF FindFirstHit(entries[q.module], q.cooperativeId, q.year, q.month)
        THEN /\ answered' = Respond(answered,
                              Answer(q, SendError(DataExistsError(q.module), 400)))
             /\ req' = [req EXCEPT ![r] = IdleRequest]
        ELSE /\ req' = [req EXCEPT ![r].pc = AfterDelete(q)]
             /\ UNCHANGED answered
  /\ reply' = NoReply
  /\ UNCHANGED <<odooVars, userVars>>
  /\ UNCHANGED <<entries, period, uploadHistory, activityLog, started>>

\* await prisma.<table>.deleteMany(...)
DeleteMany(r) ==
  /\ req[r].pc = "deleteMany"
  /\ LET q == req[r]
     IN /\ entries' = [entries EXCEPT ![q.module] =
                         DeleteManyFrom(@, q.cooperativeId, q.year, q.month)]
        /\ req' = [req EXCEPT ![r].pc = AfterDelete(q),
                                ![r].deleted = Len(UnitRows(entries[q.module], q))]
  /\ reply' = NoReply
  /\ UNCHANGED <<odooVars, userVars>>
  /\ UNCHANGED <<period, uploadHistory, activityLog, started, answered>>

\* a query throws on a value it does not accept: the catch answers 500
Invalid(r) ==
  /\ answered' = Respond(answered,
                    Answer([req[r] EXCEPT !.thrown = "validation"],
                           SendError(CatchError(req[r].module), 500)))
  /\ req' = [req EXCEPT ![r] = IdleRequest]
  /\ UNCHANGED entries

\* await prisma.<table>.createMany(...)
CreateMany(r) ==
  /\ req[r].pc = "createMany"
  /\ LET q == req[r]
     IN IF \A i \in 1..Len(Batch(q)) : Accepts(q.module, Batch(q)[i])
        THEN /\ entries' = [entries EXCEPT ![q.module] = CreateManyInto(@, Batch(q))]
             /\ req' = [req EXCEPT ![r].pc = "periodUpsert",
                                     ![r].inserted = Len(Batch(q))]
             /\ UNCHANGED answered
        ELSE Invalid(r)
  /\ reply' = NoReply
  /\ UNCHANGED <<odooVars, userVars>>
  /\ UNCHANGED <<period, uploadHistory, activityLog, started>>

\* one turn of the loop of uploadRatios: await prisma.financialRatio.upsert(...)
\* for the next valid record, in file order
RatioUpsert(r) ==
  /\ req[r].pc = "ratioUpsert"
  /\ LET q == req[r]
         i == q.inserted + 1
     IN IF Accepts(q.module, Batch(q)[i])
        THEN /\ entries' = [entries EXCEPT ![q.module] =
                              RatioUpsertInto(@, Batch(q)[i])]
             /\ req' = [req EXCEPT ![r].pc = IF i = ValidCount(q) THEN "periodUpsert"
                                              ELSE "ratioUpsert",
                                     ![r].inserted = i]
             /\ UNCHANGED answered
        ELSE Invalid(r)
  /\ reply' = NoReply
  /\ UNCHANGED <<odooVars, userVars>>
  /\ UNCHANGED <<period, uploadHistory, activityLog, started>>

\* await prisma.period.upsert(...)
PeriodUpsert(r) ==
  /\ req[r].pc = "periodUpsert"
  /\ LET q == req[r]
     IN /\ period' = PeriodUpsertInto(period, q.cooperativeId, q.year, q.month)
        /\ req' = [req EXCEPT ![r].pc = "historyCreate"]
  /\ reply' = NoReply
  /\ UNCHANGED <<odooVars, userVars>>
  /\ UNCHANGED <<entries, uploadHistory, activityLog, started, answered>>

\* await prisma.uploadHistory.create(...)
UploadHistoryCreate(r) ==
  /\ req[r].pc = "historyCreate"
  /\ LET q == req[r]
     IN /\ uploadHistory' = HistoryCreateInto(uploadHistory,
                                               SuccessRow(q, ValidCount(q)))
        /\ req' = [req EXCEPT ![r].pc = "activityCreate",
                                ![r].hist = Append(@, SuccessRow(q, ValidCount(q)))]
  /\ reply' = NoReply
  /\ UNCHANGED <<odooVars, userVars>>
  /\ UNCHANGED <<entries, period, activityLog, started, answered>>

\* await prisma.activityLog.create(...) and the sendSuccess that follows it
ActivityLogCreate(r) ==
  /\ req[r].pc = "activityCreate"
  /\ LET q == req[r]
     IN /\ activityLog' = ActivityCreateInto(activityLog, q)
        /\ answered' = Respond(answered, Answer(q, SendSuccess(ValidCount(q))))
        /\ req' = [req EXCEPT ![r] = IdleRequest]
  /\ reply' = NoReply
  /\ UNCHANGED <<odooVars, userVars>>
  /\ UNCHANGED <<entries, period, uploadHistory, started>>

\* a storage call rejects and no catch is around it: the handler ends
\* without a response
StorageErrorEscapes(r) ==
  /\ req[r].pc \in StoragePcs
  /\ req' = [req EXCEPT ![r] = IdleRequest]
  /\ reply' = NoReply
  /\ UNCHANGED <<odooVars, userVars>>
  /\ UNCHANGED <<entries, period, uploadHistory, activityLog, started, answered>>

\* a storage call rejects: the handler's catch answers 500
StorageError(r) ==
  /\ req[r].pc \in StoragePcs
  /\ LET q == req[r]
     IN /\ answered' = Respond(answered,
                           Answer([q EXCEPT !.thrown = "storage"],
                                  SendError(CatchError(q.module), 500)))
        /\ req' = [req EXCEPT ![r] = IdleRequest]
  /\ reply' = NoReply
  /\ UNCHANGED <<odooVars, userVars>>
  /\ UNCHANGED <<entries, period, uploadHistory, activityLog, started>>

(* --------------------------- history queries -------------------------- *)

RECURSIVE Reverse(_)
\* orderBy: { createdAt: 'desc' } over a table kept in order of creation
Reverse(s) == IF s = <<>> THEN <<>> ELSE Reverse(Tail(s)) \o <<Head(s)>>

\* take: n, the first n rows of the ordered list; for a negative n, its
\* last -n rows
Take(s, n) ==
  IF n >= 0 THEN SubSeq(s, 1, IF n < Len(s) THEN n ELSE Len(s))
  ELSE SubSeq(s, IF Len(s) + n + 1 > 1 THEN Len(s) + n + 1 ELSE 1, Len(s))

\* parseInt(req.query.limit) || 20, the limit given as the number parsed:
\* 0 (and a limit that is absent or no number) is replaced by 20
LimitOrDefault(limit) == IF limit = 0 THEN 20 ELSE limit

\* getUploadHistory: findMany where cooperativeId, createdAt desc, take limit
GetUploadHistory(cooperativeId, limit) ==
  /\ reply' = [sent |-> TRUE,
               data |-> Take(Reverse(SelectSeqBy(uploadHistory,
                          {h \in {uploadHistory[i] : i \in 1..Len(uploadHistory)} :
                             h.cooperativeId = cooperativeId})),
                             LimitOrDefault(limit))]
  /\ UNCHANGED <<entries, period, uploadHistory, activityLog, req, started, answered>>
  /\ UNCHANGED <<odooVars, userVars>>

\* getLatestUpload: findFirst where cooperativeId, status success, createdAt desc
GetLatestUpload(cooperativeId) ==
  /\ reply' = [sent |-> TRUE,
               data |-> Take(Reverse(SelectSeqBy(uploadHistory,
                          {h \in {uploadHistory[i] : i \in 1..Len(uploadHistory)} :
                             h.cooperativeId = cooperativeId /\ h.status = "success"})), 1)]
  /\ UNCHANGED <<entries, period, uploadHistory, activityLog, req, started, answered>>
  /\ UNCHANGED <<odooVars, userVars>>

(* -------------------------- financial queries ------------------------- *)

\* the declaration order of the BalanceCategory enum, which orders the column
CategoryRank(category) ==
  CASE category = "assets" -> 1
    [] category = "liabilities" -> 2
    [] category = "equity" -> 3

\* the account codes of the input domain in the order of the text column
CodeOrder == <<"1100", "1101", "2100", "2101", "2102", "3100", "3101">>

CodeRank(code) == CHOOSE i \in 1..Len(CodeOrder) : CodeOrder[i] = code

\* row a comes before row b under orderBy category asc, accountCode asc
\* (rows equal in both keep the order of the table)
Precedes(a, b) ==
  \/ CategoryRank(a.category) < CategoryRank(b.category)
  \/ /\ a.category = b.category
     /\ CodeRank(a.accountCode) < CodeRank(b.accountCode)

RECURSIVE OrderByCategoryAndCode(_)
\* orderBy: [{ category: 'asc' }, { accountCode: 'asc' }]
OrderByCategoryAndCode(rows) ==
  IF rows = <<>> THEN <<>>
  ELSE LET first == CHOOSE i \in 1..Len(rows) :
                      /\ \A j \in 1..Len(rows) : ~Precedes(rows[j], rows[i])
                      /\ \A j \in 1..(i - 1) : Precedes(rows[i], rows[j])
                                               \/ Precedes(rows[j], rows[i])
           rest == [k \in 1..(Len(rows) - 1) |->
                      IF k < first THEN rows[k] ELSE rows[k + 1]]
       IN <<rows[first]>> \o OrderByCategoryAndCode(rest)

RECURSIVE DebitTotal(_, _)
\* entries.filter(e => e.category === category)
\*        .reduce((sum, e) => sum + e.finalDebit - e.finalCredit, 0)
DebitTotal(rows, category) ==
  IF rows = <<>> THEN 0
  ELSE LET e == rows[Len(rows)]
           sum == DebitTotal(SubSeq(rows, 1, Len(rows) - 1), category)
       IN IF e.category = category THEN sum + e.finalDebit - e.finalCredit ELSE sum

RECURSIVE TotalCredit(_, _)
\* a total that adds the credit side only
TotalCredit(rows, category) ==
  IF rows = <<>> THEN 0
  ELSE TotalCredit(Tail(rows), category)
       + (IF Head(rows).category = category THEN Head(rows).finalCredit ELSE 0)

RECURSIVE CreditTotal(_, _)
\* entries.filter(e => e.category === category)
\*        .reduce((sum, e) => sum + e.finalCredit - e.finalDebit, 0)
CreditTotal(rows, category) ==
  IF rows = <<>> THEN 0
  ELSE LET e == rows[Len(rows)]
           sum == CreditTotal(SubSeq(rows, 1, Len(rows) - 1), category)
       IN IF e.category = category THEN sum + e.finalCredit - e.finalDebit ELSE sum

\* the summary getBalanceSheet computes from the rows it has read; amounts are
\* whole numbers here, so a difference below 0.01 is no difference
BalanceSheetSummary(rows) ==
  LET totalAssets == DebitTotal(rows, "assets")
      totalLiabilities == CreditTotal(rows, "liabilities")
      totalEquity == CreditTotal(rows, "equity")
  IN [totalAssets |-> totalAssets, totalLiabilities |-> totalLiabilities,
      totalEquity |-> totalEquity,
      isBalanced |-> totalAssets = totalLiabilities + totalEquity]

\* getBalanceSheet for the period of the query: findMany where cooperativeId,
\* year, month in the order of category and account code, the totals, and
\* sendSuccess(res, { entries, summary }); the reply keeps the key asked for
GetBalanceSheet(cooperativeId, year, month) ==
  /\ reply' =
       [sent |-> TRUE,
        data |-> IF cooperativeId = ""
                 THEN <<[success |-> FALSE, error |-> "Cooperative ID required"]>>
                 ELSE LET rows == OrderByCategoryAndCode(
                                    FindMany(entries["balance_sheet"],
                                             cooperativeId, year, month))
                      IN <<[success |-> TRUE, cooperativeId |-> cooperativeId,
                            year |-> year, month |-> month, entries |-> rows,
                            summary |-> BalanceSheetSummary(rows)]>>]
  /\ UNCHANGED <<entries, period, uploadHistory, activityLog, req, started, answered>>
  /\ UNCHANGED <<odooVars, userVars>>

(* --------------------------- the ERP service -------------------------- *)

FetchOps == {"fetchBalanceSheet", "fetchCashFlow", "fetchMembershipFees"}

\* the user id the ERP gives for the credentials of a configuration
UidOf(config) == IF config = ConfigA THEN 7 ELSE 9

\* the connection object a call holds: the one in the cache while the cache
\* still maps the cooperative to it, else the call's own reference
Conn(s) ==
  IF calls[s].shared THEN connections[calls[s].cooperativeId] ELSE calls[s].conn

\* the cache entry of a cooperative is deleted or replaced: the calls that
\* hold the object it mapped to keep that object
Detach(cs, cooperativeId) ==
  [s \in Slots |->
     IF cs[s].shared /\ cs[s].cooperativeId = cooperativeId
     THEN [cs[s] EXCEPT !.shared = FALSE, !.conn = connections[cooperativeId]]
     ELSE cs[s]]

\* a saveConfig for the cooperative has taken a step: the getConfig calls
\* for it that have not resolved yet overlap with a save
Overlap(cs, cooperativeId) ==
  [s \in Slots |->
     IF cs[s].cooperativeId = cooperativeId /\ cs[s].pc \in {"findUnique", "cacheSet"}
     THEN [cs[s] EXCEPT !.quiet = FALSE]
     ELSE cs[s]]

\* no saveConfig for the cooperative is between its upsert and its return
SaveSettled(cooperativeId) ==
  \A s \in Slots : ~( /\ calls[s].op = "saveConfig" /\ calls[s].pc = "cacheDelete"
                       /\ calls[s].cooperativeId = cooperativeId )

\* execute: authenticate first when the connection has no uid
ExecutePc(connection) == IF connection.uid = 0 THEN "authenticate" ELSE "searchRead"

\* the lowest caller slot that is free
FreeCall(s) ==
  /\ calls[s].op = "idle"
  /\ \A s2 \in Slots : s2 < s => calls[s2].op # "idle"

\* the result object of a fetch
FetchResult(op, cooperativeId, success, records, error) ==
  [sent |-> TRUE, op |-> op, cooperativeId |-> cooperativeId, success |-> success,
   records |-> records, error |-> error]

\* a fetch returns from its try or from its catch
Return(s, success, records, error) ==
  /\ returned' = FetchResult(calls[s].op, calls[s].cooperativeId, success,
                              records, error)
  /\ calls' = [calls EXCEPT ![s] = IdleCall]

\* fetchBalanceSheet / fetchCashFlow / fetchMembershipFees up to the first
\* await of getConfig: a cached connection is returned as it is, else the
\* OdooConfig row is asked for (the year and month of the call only select
\* what the ERP will be asked for)
StartFetch(s, op, cooperativeId) ==
  /\ FreeCall(s)
  /\ LET c == [IdleCall EXCEPT !.op = op, !.cooperativeId = cooperativeId,
                               !.quiet = SaveSettled(cooperativeId)]
     IN calls' = [calls EXCEPT ![s] =
                    IF connections[cooperativeId].cached
                    THEN [c EXCEPT !.pc = ExecutePc(connections[cooperativeId]),
                                   !.shared = TRUE]
                    ELSE [c EXCEPT !.pc = "findUnique"]]
  /\ UNCHANGED <<odooConfig, connections, returned>>
  /\ UNCHANGED <<uploadVars, userVars>>

\* getConfig: await prisma.odooConfig.findUnique(...)
FindUnique(s) ==
  /\ calls[s].pc = "findUnique"
  /\ calls' = [calls EXCEPT ![s].pc = "cacheSet",
                            ![s].config = odooConfig[calls[s].cooperativeId]]
  /\ UNCHANGED <<odooConfig, connections, returned>>
  /\ UNCHANGED <<uploadVars, userVars>>

\* getConfig after its await: null without a row, else a new connection is
\* put in the cache and returned; the fetch goes on to execute
CacheSet(s) ==
  /\ calls[s].pc = "cacheSet"
  /\ LET c == calls[s]
         connection == [cached |-> TRUE, config |-> c.config, uid |-> 0]
     IN IF c.config = NoConfig
        THEN /\ Return(s, FALSE, <<>>, "Odoo not configured")
             /\ UNCHANGED connections
        ELSE /\ connections' = [connections EXCEPT ![c.cooperativeId] = connection]
             /\ calls' = [Detach(calls, c.cooperativeId) EXCEPT ![s] =
                            [c EXCEPT !.pc = ExecutePc(connection), !.shared = TRUE,
                                      !.config = NoConfig]]
             /\ UNCHANGED returned
  /\ UNCHANGED odooConfig
  /\ UNCHANGED <<uploadVars, userVars>>

\* execute: config.uid = await this.authenticate(config)
Authenticate(s) ==
  /\ calls[s].pc = "authenticate"
  /\ LET c == calls[s]
         uid == UidOf(Conn(s).config)
     IN IF c.shared
        THEN /\ connections' = [connections EXCEPT ![c.cooperativeId].uid = uid]
             /\ calls' = [calls EXCEPT ![s].pc = "searchRead"]
        ELSE /\ calls' = [calls EXCEPT ![s].pc = "searchRead", ![s].conn.uid = uid]
             /\ UNCHANGED connections
  /\ UNCHANGED <<odooConfig, returned>>
  /\ UNCHANGED <<uploadVars, userVars>>

\* authenticate rejects: the catch of the fetch returns the error
AuthenticateFails(s, error) ==
  /\ calls[s].pc = "authenticate"
  /\ Return(s, FALSE, <<>>, error)
  /\ UNCHANGED <<odooConfig, connections>>
  /\ UNCHANGED <<uploadVars, userVars>>

AuthErrors == {"Odoo authentication failed", "Invalid Odoo credentials"}

\* `M${p.id.toString().padStart(3, '0')}`
PaddedMemberId(id) ==
  IF id < 10 THEN "M00" \o ToString(id)
  ELSE IF id < 100 THEN "M0" \o ToString(id)
  ELSE "M" \o ToString(id)

\* the fee record fetchMembershipFees makes of a partner (p.debit || 0, a
\* missing ref read as "")
PartnerToFee(p) ==
  LET paid == p.debit
  IN [memberId |-> IF p.ref # "" THEN p.ref ELSE PaddedMemberId(p.id),
      memberName |-> p.name,
      expectedContribution |-> 500,
      paymentMade |-> paid,
      debt |-> IF 500 - paid > 0 THEN 500 - paid ELSE 0,
      status |-> IF paid >= 500 THEN "up_to_date" ELSE "with_debt",
      odooPartnerId |-> ToString(p.id)]

\* the cash-flow record fetchCashFlow makes of a payment
PaymentToCashFlow(p) ==
  [description |-> IF p.name # "" THEN p.name
                   ELSE IF p.ref # "" THEN p.ref ELSE "Payment",
   amount |-> IF p.payment_type = "inbound" THEN p.amount ELSE 0 - p.amount,
   category |-> "operating",
   odooId |-> ToString(p.id)]

\* mapAccountTypeToCategory
MapAccountTypeToCategory(accountType) ==
  CASE accountType \in {"asset_receivable", "asset_cash", "asset_current",
                        "asset_non_current", "asset_prepayments", "asset_fixed"}
         -> "assets"
    [] accountType \in {"liability_payable", "liability_credit_card",
                        "liability_current", "liability_non_current"}
         -> "liabilities"
    [] accountType \in {"equity", "equity_unaffected"} -> "equity"
    [] OTHER -> "assets"

\* new Map(accounts.map(a => [a.id, a])).get(id): the last account of the id
AccountsOf(accounts, id) ==
  SelectSeqBy(accounts, {a \in {accounts[i] : i \in 1..Len(accounts)} : a.id = id})

RECURSIVE AccountTotals(_, _, _)
\* the loop of transformBalanceSheetRecords: the totals per account, in the
\* order in which the accounts first appear in the move lines
AccountTotals(lines, accounts, totals) ==
  IF lines = <<>> THEN totals
  ELSE LET record == Head(lines)
           known == AccountsOf(accounts, record.account_id)
           account == known[Len(known)]
           seen == \E i \in 1..Len(totals) : totals[i].id = record.account_id
       IN IF known = <<>> THEN AccountTotals(Tail(lines), accounts, totals)
          ELSE AccountTotals(Tail(lines), accounts,
                 IF seen
                 THEN [i \in 1..Len(totals) |->
                         IF totals[i].id = record.account_id
                         THEN [totals[i] EXCEPT !.debit = @ + record.debit,
                                                !.credit = @ + record.credit]
                         ELSE totals[i]]
                 ELSE Append(totals, [id |-> record.account_id,
                                      debit |-> record.debit,
                                      credit |-> record.credit,
                                      code |-> account.code, name |-> account.name,
                                      type |-> account.account_type]))

\* transformBalanceSheetRecords
TransformBalanceSheetRecords(lines, accounts) ==
  LET totals == AccountTotals(lines, accounts, <<>>)
  IN [i \in 1..Len(totals) |->
        [accountCode |-> totals[i].code, accountName |-> totals[i].name,
         category |-> MapAccountTypeToCategory(totals[i].type),
         subcategory |-> totals[i].type,
         initialDebit |-> 0, initialCredit |-> 0,
         periodDebit |-> totals[i].debit, periodCredit |-> totals[i].credit,
         finalDebit |-> totals[i].debit, finalCredit |-> totals[i].credit,
         odooId |-> ToString(totals[i].id)]]

\* the first searchRead of a fetch resolves with the rows the ERP holds
SearchRead(s, rows) ==
  /\ calls[s].pc = "searchRead"
  /\ CASE calls[s].op = "fetchMembershipFees" ->
            Return(s, TRUE, [i \in 1..Len(rows) |-> PartnerToFee(rows[i])], "")
       [] calls[s].op = "fetchCashFlow" ->
            Return(s, TRUE, [i \in 1..Len(rows) |-> PaymentToCashFlow(rows[i])], "")
       [] calls[s].op = "fetchBalanceSheet" ->
            /\ calls' = [calls EXCEPT ![s].pc = "searchAccounts", ![s].lines = rows]
            /\ UNCHANGED returned
  /\ UNCHANGED <<odooConfig, connections>>
  /\ UNCHANGED <<uploadVars, userVars>>

\* the second searchRead of fetchBalanceSheet resolves with the accounts
SearchAccounts(s, accounts) ==
  /\ calls[s].pc = "searchAccounts"
  /\ Return(s, TRUE, TransformBalanceSheetRecords(calls[s].lines, accounts), "")
  /\ UNCHANGED <<odooConfig, connections>>
  /\ UNCHANGED <<uploadVars, userVars>>

\* execute_kw rejects and the rejection leaves the fetch: the call ends
\* without a result
ExecuteThrows(s) ==
  /\ calls[s].pc \in {"searchRead", "searchAccounts"}
  /\ calls' = [calls EXCEPT ![s] = IdleCall]
  /\ UNCHANGED <<odooConfig, connections, returned>>
  /\ UNCHANGED <<uploadVars, userVars>>

\* execute_kw rejects: the catch of the fetch returns the error
ExecuteFails(s) ==
  /\ calls[s].pc \in {"searchRead", "searchAccounts"}
  /\ Return(s, FALSE, <<>>, "Odoo execute failed")
  /\ UNCHANGED <<odooConfig, connections>>
  /\ UNCHANGED <<uploadVars, userVars>>

\* saveConfig up to its await
StartSave(s, cooperativeId, config) ==
  /\ FreeCall(s)
  /\ calls' = [calls EXCEPT ![s] =
                 [IdleCall EXCEPT !.op = "saveConfig", !.pc = "upsert",
                                  !.cooperativeId = cooperativeId,
                                  !.config = config]]
  /\ UNCHANGED <<odooConfig, connections, returned>>
  /\ UNCHANGED <<uploadVars, userVars>>

\* saveConfig: await prisma.odooConfig.upsert(...)
Upsert(s) ==
  /\ calls[s].pc = "upsert"
  /\ odooConfig' = [odooConfig EXCEPT ![calls[s].cooperativeId] = calls[s].config]
  /\ calls' = [Overlap(calls, calls[s].cooperativeId) EXCEPT ![s].pc = "cacheDelete"]
  /\ UNCHANGED <<connections, returned>>
  /\ UNCHANGED <<uploadVars, userVars>>

\* saveConfig after its await: this.connections.delete(cooperativeId)
CacheDelete(s) ==
  /\ calls[s].pc = "cacheDelete"
  /\ connections' = [connections EXCEPT ![calls[s].cooperativeId] = NoConnection]
  /\ calls' = [Overlap(Detach(calls, calls[s].cooperativeId),
                        calls[s].cooperativeId) EXCEPT ![s] = IdleCall]
  /\ returned' = FetchResult("saveConfig", calls[s].cooperativeId, TRUE, <<>>, "")
  /\ UNCHANGED odooConfig
  /\ UNCHANGED <<uploadVars, userVars>>

\* a query on the OdooConfig table rejects: getConfig throws into the catch
\* of the fetch, saveConfig rejects to its caller
OdooStorageError(s) ==
  /\ calls[s].pc \in {"findUnique", "upsert"}
  /\ Return(s, FALSE, <<>>, "Can't reach database server")
  /\ UNCHANGED <<odooConfig, connections>>
  /\ UNCHANGED <<uploadVars, userVars>>

\* rows of res.partner, account.payment, account.move.line (account_id
\* reduced to the id it starts with) and account.account as the ERP returns
\* them; an unset text field is read as ""
Partner(id, ref, debit) ==
  [id |-> id, name |-> "Ana", ref |-> ref, credit |-> 0, debit |-> debit]
Payment(name, ref, type) ==
  [id |-> 3, name |-> name, ref |-> ref, amount |-> 300, payment_type |-> type]
MoveLine(accountId, debit, credit) ==
  [account_id |-> accountId, debit |-> debit, credit |-> credit]
Account(id, code, name, type) ==
  [id |-> id, code |-> code, name |-> name, account_type |-> type]

\* what the ERP answers to the first searchRead of a fetch, one case each
ErpRows(op) ==
  CASE op = "fetchMembershipFees" -> {<<Partner(7, "", 300)>>}
    [] op = "fetchCashFlow" -> {<<Payment("PAY/1", "", "inbound")>>}
    [] op = "fetchBalanceSheet" -> {<<MoveLine(1, 500, 0)>>}
    [] OTHER -> {}

\* what the ERP answers to the searchRead of the accounts
ErpAccounts == {<<Account(1, "1101", "Caja", "asset_cash")>>}

\* the account types of the ERP: the ones mapAccountTypeToCategory lists and
\* the income and expense types it does not
AccountTypes ==
  {"asset_receivable", "asset_cash", "asset_current", "asset_non_current",
   "asset_prepayments", "asset_fixed", "liability_payable",
   "liability_credit_card", "liability_current", "liability_non_current",
   "equity", "equity_unaffected", "income", "expense", "off_balance"}

\* the same for a single fetch: partners with and without a reference and
\* with payments below, at and above the expected contribution, payments of
\* both directions, move lines of one, two and unknown accounts
ErpRowsWide(op) ==
  CASE op = "fetchMembershipFees" ->
         { <<Partner(id, ref, debit)>> :
             id \in {7, 42, 1234}, ref \in {"", "S-1"}, debit \in {0, 300, 500, 700} }
         \cup { <<>>, <<Partner(7, "", 700), Partner(42, "S-1", 0)>> }
    [] op = "fetchCashFlow" ->
         { <<Payment(name, ref, type)>> :
             name \in {"PAY/1", ""}, ref \in {"INV-9", ""},
             type \in {"inbound", "outbound"} }
    [] op = "fetchBalanceSheet" ->
         { <<MoveLine(1, 500, 0)>>,
           <<MoveLine(1, 500, 0), MoveLine(2, 0, 300), MoveLine(1, 0, 300)>>,
           <<MoveLine(5, 300, 0), MoveLine(2, 0, 500)>> }
    [] OTHER -> {}

ErpAccountsWide ==
  { <<Account(1, "1101", "Caja", t1), Account(2, "2101", "Proveedores", t2)>> :
      t1 \in AccountTypes, t2 \in {"liability_payable", "income"} }

(* --------------------------- user management ------------------------- *)

\* the values a role or status change is asked with: the two of the enum and
\* one that is none of them
RoleValues == {"admin", "socio", "owner"}
StatusValues == {"active", "inactive", "blocked"}

\* the error of the catch of changeUserRole / changeUserStatus
ChangeFailed(op) ==
  IF op = "role" THEN "Failed to change user role"
  ELSE "Failed to change user status"

\* a response of the user routes
UserResponse(status, error) == [sent |-> TRUE, status |-> status, error |-> error]

\* the request of a session ends with a response
EndSession(s, status, error) ==
  /\ userReply' = UserResponse(status, error)
  /\ sessions' = [sessions EXCEPT ![s] = IdleSession]

\* a request of the user routes arrives with the token of the actor:
\* authenticate awaits prisma.user.findUnique for the actor
AuthenticateUser(s, actor, op, target, value) ==
  /\ sessions[s].pc = "idle"
  /\ \A s2 \in Slots : s2 < s => sessions[s2].pc # "idle"
  /\ started < MaxRequests
  /\ started' = started + 1
  /\ sessions' = [sessions EXCEPT ![s] =
                    [pc |-> "authenticate", actor |-> actor, op |-> op,
                     target |-> target, value |-> value]]

\* PUT /users/:userId/role
ChangeUserRole(s, actor, target, role) ==
  /\ AuthenticateUser(s, actor, "role", target, role)
  /\ UNCHANGED <<users, userReply>>
  /\ UNCHANGED <<entries, period, uploadHistory, activityLog, req, answered, reply>>
  /\ UNCHANGED odooVars

\* PUT /users/:userId/status
ChangeUserStatus(s, actor, target, status) ==
  /\ AuthenticateUser(s, actor, "status", target, status)
  /\ UNCHANGED <<users, userReply>>
  /\ UNCHANGED <<entries, period, uploadHistory, activityLog, req, answered, reply>>
  /\ UNCHANGED odooVars

\* authenticate after its findUnique, requireAdmin, and the head of the
\* handler up to its first await: the actor as read now must be active and an
\* admin, the value one of the enum, and the change not one the handler
\* refuses for the actor's own account
RequireAdmin(s) ==
  /\ sessions[s].pc = "authenticate"
  /\ LET c == sessions[s]
         refused ==
           IF c.op = "role" THEN c.target = c.actor
           ELSE c.target = c.actor /\ c.value = "inactive"
     IN IF users[c.actor].status = "inactive"
        THEN EndSession(s, 401, "User account is inactive")
        ELSE IF users[c.actor].role # "admin"
        THEN EndSession(s, 403, "Admin access required")
        ELSE IF c.op = "role" /\ c.value \notin {"admin", "socio"}
        THEN EndSession(s, 400, "Valid role is required (admin or socio)")
        ELSE IF c.op = "status" /\ c.value \notin {"active", "inactive"}
        THEN EndSession(s, 400, "Valid status is required (active or inactive)")
        ELSE IF refused
        THEN EndSession(s, 400, IF c.op = "role" THEN "Cannot change your own role"
                                ELSE "Cannot deactivate your own account")
        ELSE /\ sessions' = [sessions EXCEPT ![s].pc = "update"]
             /\ UNCHANGED userReply
  /\ UNCHANGED users
  /\ UNCHANGED <<uploadVars, odooVars>>

\* await prisma.user.update({ where: { id: userId }, data: { role } }) or
\* data: { status }
UserUpdate(s) ==
  /\ sessions[s].pc = "update"
  /\ LET c == sessions[s]
     IN users' = [users EXCEPT ![c.target] =
                    IF c.op = "role" THEN [@ EXCEPT !.role = c.value]
                    ELSE [@ EXCEPT !.status = c.value]]
  /\ sessions' = [sessions EXCEPT ![s].pc = "activityCreate"]
  /\ UNCHANGED userReply
  /\ UNCHANGED <<uploadVars, odooVars>>

\* await prisma.activityLog.create(...) and the sendSuccess that follows it
UserActivityLogCreate(s) ==
  /\ sessions[s].pc = "activityCreate"
  /\ activityLog' = Append(activityLog, [userId |-> sessions[s].actor,
                                          module |-> "users"])
  /\ EndSession(s, 200, "")
  /\ UNCHANGED users
  /\ UNCHANGED <<entries, period, uploadHistory, req, started, answered, reply>>
  /\ UNCHANGED odooVars

\* a storage call of the request rejects: the findUnique of authenticate
\* sits in the try of verifyToken, whose catch answers 401, and the catch of
\* the handler answers 500
UserStorageError(s) ==
  /\ sessions[s].pc \in {"authenticate", "update", "activityCreate"}
  /\ IF sessions[s].pc = "authenticate"
     THEN EndSession(s, 401, "Invalid or expired token")
     ELSE EndSession(s, 500, ChangeFailed(sessions[s].op))
  /\ UNCHANGED users
  /\ UNCHANGED <<uploadVars, odooVars>>

(* ---------------------------- specifications -------------------------- *)

\* the limits a history listing is asked with
Limits == {1, 20}

UploadAny(r) == \E in \in RequestInputs : Upload(r, in)

QueryAny ==
  \E cooperativeId \in CoopIds :
    \/ \E limit \in Limits : GetUploadHistory(cooperativeId, limit)
    \/ GetLatestUpload(cooperativeId)

Step(r) ==
  \/ FindFirst(r)
  \/ DeleteMany(r)
  \/ CreateMany(r)
  \/ PeriodUpsert(r)
  \/ UploadHistoryCreate(r)
  \/ ActivityLogCreate(r)
  \/ StorageError(r)

Next ==
  \/ \E r \in Slots : UploadAny(r)
  \/ \E r \in Slots : Step(r)

\* uploads of concurrent requests interleave at their storage calls
Spec == Init /\ [][Next]_vars

\* no handler is between its first storage call and its response
Quiet == \A r \in Slots : req[r].pc = "idle"

\* an upload that arrives when no other is in flight
UploadAlone(r) == Quiet /\ UploadAny(r)

NextSeq ==
  \/ \E r \in Slots : UploadAlone(r)
  \/ \E r \in Slots : Step(r)
  \/ QueryAny

\* uploads arrive one after the other, history queries at any moment
SpecSeq == Init /\ [][NextSeq]_vars

\* the uploads that meet at the Period table: two modules of one period and
\* the same module for the next month
PeriodInputs ==
  { Input("c1", "balance_sheet", FALSE, FileOf(<<BalanceRowA>>)),
    Input("c1", "cash_flow", TRUE, FileOf(<<CashRowB>>)),
    InputAt("c1", 2025, 7, "cash_flow", TRUE, FileOf(<<CashRowB>>)) }

\* an empty database, or one whose Period of c1 for 2025/6 was deactivated
\* (the isActive column of the Period table) after its rows were removed
InitPeriod ==
  /\ entries = [m \in Modules |-> <<>>]
  /\ period \in { {}, {[cooperativeId |-> "c1", year |-> 2025, month |-> 6,
                        isActive |-> FALSE]} }
  /\ uploadHistory = <<>>
  /\ activityLog = <<>>
  /\ req = [r \in Slots |-> IdleRequest]
  /\ started = 0
  /\ answered = <<>>
  /\ reply = NoReply
  /\ NoOdoo
  /\ NoChanges

NextPeriod ==
  \/ \E r \in Slots : \E in \in PeriodInputs : Upload(r, in)
  \/ \E r \in Slots : Step(r)

\* concurrent uploads into periods that exist and periods that do not
SpecPeriod == InitPeriod /\ [][NextPeriod]_vars

\* no upload has been made; the ERP of c1 is configured or not
InitOdoo ==
  /\ entries = [m \in Modules |-> <<>>]
  /\ period = {}
  /\ uploadHistory = <<>>
  /\ activityLog = <<>>
  /\ req = [r \in Slots |-> IdleRequest]
  /\ started = 0
  /\ answered = <<>>
  /\ reply = NoReply
  /\ odooConfig \in {[c \in CoopIds |-> NoConfig],
                      [c \in CoopIds |-> IF c = "c1" THEN ConfigA ELSE NoConfig]}
  /\ connections = [c \in CoopIds |-> NoConnection]
  /\ calls = [s \in Slots |-> IdleCall]
  /\ returned = NoResult
  /\ NoChanges

\* the steps of the OdooService calls in flight
OdooStep(s) ==
  \/ FindUnique(s)
  \/ CacheSet(s)
  \/ Authenticate(s)
  \/ \E error \in AuthErrors : AuthenticateFails(s, error)
  \/ ExecuteFails(s)
  \/ Upsert(s)
  \/ CacheDelete(s)
  \/ OdooStorageError(s)

NextOdoo ==
  \/ \E s \in Slots : \E op \in FetchOps : StartFetch(s, op, "c1")
  \/ \E s \in Slots : \E config \in Configs : StartSave(s, "c1", config)
  \/ \E s \in Slots : OdooStep(s)
  \/ \E s \in Slots : \E rows \in ErpRows(calls[s].op) : SearchRead(s, rows)
  \/ \E s \in Slots : \E accounts \in ErpAccounts : SearchAccounts(s, accounts)

\* ERP fetches and configuration saves of concurrent callers, for one
\* cooperative (the cache and the table are keyed by cooperative)
SpecOdoo == InitOdoo /\ [][NextOdoo]_vars

\* ratio uploads for one period: a file that lists a name twice, the second
\* time without a trend word, merged into the unit; a file that replaces
\* the unit
RatioInputs ==
  { Input("c1", "ratios", FALSE, FileOf(<<RatioRowA, RatioRowB>>)),
    Input("c1", "ratios", TRUE, FileOf(<<RatioRowA>>)) }

\* the ratio row an earlier upload for the month before has left: the first
\* value of the ratio, uploaded as stable
PriorRatio ==
  ToEntry("ratios", "c1", 2025, 5, [RatioRowA EXCEPT !.trend = "estable"])

\* a database that holds the ratio of the month before, as its upload left it
InitRatios ==
  /\ entries = [m \in Modules |-> IF m = "ratios" THEN <<PriorRatio>> ELSE <<>>]
  /\ period = PeriodUpsertInto({}, "c1", 2025, 5)
  /\ uploadHistory =
       HistoryCreateInto(<<>>, SuccessRow(InputAt("c1", 2025, 5, "ratios",
                                                  FALSE, NoFile), 1))
  /\ activityLog = ActivityCreateInto(<<>>, [module |-> "ratios"])
  /\ req = [r \in Slots |-> IdleRequest]
  /\ started = 0
  /\ answered = <<>>
  /\ reply = NoReply
  /\ NoOdoo
  /\ NoChanges

NextRatios ==
  \/ \E r \in Slots : \E in \in RatioInputs : Upload(r, in)
  \/ \E r \in Slots : DeleteMany(r)
  \/ \E r \in Slots : RatioUpsert(r)
  \/ \E r \in Slots : PeriodUpsert(r)
  \/ \E r \in Slots : UploadHistoryCreate(r)
  \/ \E r \in Slots : ActivityLogCreate(r)
  \/ \E r \in Slots : StorageError(r)

\* concurrent ratio uploads
SpecRatios == InitRatios /\ [][NextRatios]_vars

\* ratio uploads for one period, handled one after the other: a file of two
\* ratios and a file of one of them with a new value, both merged into the
\* unit, and a file that replaces the unit, with a row whose value is empty
MergeInputs ==
  { Input("c1", "ratios", FALSE, FileOf(<<RatioRowA, RatioRowC>>)),
    Input("c1", "ratios", FALSE, FileOf(<<RatioRowB>>)),
    Input("c1", "ratios", TRUE, FileOf(<<RatioRowC, RatioRowNoValue>>)) }

NextMerge ==
  \/ \E r \in Slots : Quiet /\ \E in \in MergeInputs : Upload(r, in)
  \/ \E r \in Slots : DeleteMany(r)
  \/ \E r \in Slots : RatioUpsert(r)
  \/ \E r \in Slots : PeriodUpsert(r)
  \/ \E r \in Slots : UploadHistoryCreate(r)
  \/ \E r \in Slots : ActivityLogCreate(r)
  \/ \E r \in Slots : StorageError(r)

\* ratio uploads one after the other
SpecMerge == InitRatios /\ [][NextMerge]_vars

NextUsers ==
  \/ \E s \in Slots, actor \in UserIds, target \in UserIds, role \in RoleValues :
       ChangeUserRole(s, actor, target, role)
  \/ \E s \in Slots, actor \in UserIds, target \in UserIds, status \in StatusValues :
       ChangeUserStatus(s, actor, target, status)
  \/ \E s \in Slots : RequireAdmin(s)
  \/ \E s \in Slots : UserUpdate(s)
  \/ \E s \in Slots : UserActivityLogCreate(s)
  \/ \E s \in Slots : UserStorageError(s)

\* role and status changes asked by any user for any user, interleaving at
\* their storage calls
SpecUsers == Init /\ [][NextUsers]_vars

\* uploads into one unit and into the other modules of its period key
ExistsInputs ==
  { Input("c1", "balance_sheet", FALSE, FileOf(<<BalanceRowA>>)),
    Input("c1", "balance_sheet", TRUE, FileOf(<<BalanceRowB>>)),
    Input("c1", "cash_flow", FALSE, FileOf(<<CashRowA>>)),
    Input("c1", "membership_fees", FALSE, FileOf(<<FeeRowA>>)) }

\* what earlier uploads have left around the unit: balance sheet rows of the
\* other cooperative for the same period and of the same cooperative for the
\* next month, and, or not, the Period record of the key without any row
InitExists ==
  /\ entries = [m \in Modules |->
                  IF m = "balance_sheet"
                  THEN << ToEntry(m, "c2", 2025, 6, BalanceRowA),
                          ToEntry(m, "c1", 2025, 7, BalanceRowB) >>
                  ELSE <<>>]
  /\ period \in { PeriodUpsertInto(PeriodUpsertInto({}, "c2", 2025, 6), "c1", 2025, 7),
                  PeriodUpsertInto(PeriodUpsertInto(PeriodUpsertInto({},
                    "c2", 2025, 6), "c1", 2025, 7), "c1", 2025, 6) }
  /\ uploadHistory = <<>>
  /\ activityLog = <<>>
  /\ req = [r \in Slots |-> IdleRequest]
  /\ started = 0
  /\ answered = <<>>
  /\ reply = NoReply
  /\ NoOdoo
  /\ NoChanges

NextExists ==
  \/ \E r \in Slots : Quiet /\ \E in \in ExistsInputs : Upload(r, in)
  \/ \E r \in Slots : Step(r)

\* uploads one after the other around one period key
SpecExists == InitExists /\ [][NextExists]_vars

\* the uploads whose history rows the queries read: two of one cooperative
\* and one of the other
HistoryInputs ==
  { Input("c1", "balance_sheet", TRUE, FileOf(<<BalanceRowA>>)),
    Input("c1", "cash_flow", FALSE, FileOf(<<CashRowA>>)),
    Input("c2", "cash_flow", FALSE, FileOf(<<CashRowA>>)) }

\* the limits a history listing is asked with, as numbers parsed from the
\* query string
HistoryLimits == {-1, 0, 1, 2}

NextHistory ==
  \/ \E r \in Slots : Quiet /\ \E in \in HistoryInputs : Upload(r, in)
  \/ \E r \in Slots : Step(r)
  \/ \E cooperativeId \in CoopIds :
       \/ \E limit \in HistoryLimits : GetUploadHistory(cooperativeId, limit)
       \/ GetLatestUpload(cooperativeId)

\* uploads one after the other, history queries with any limit at any moment
SpecHistory == Init /\ [][NextHistory]_vars

\* balance sheet uploads for one period: a file of one row of each category
\* whose totals do not balance, replacing the unit, and a file of two
\* liabilities, one with an amount that is no number, added to an empty unit
SummaryInputs ==
  { Input("c1", "balance_sheet", TRUE,
          FileOf(<<BalanceRowA, BalanceRowB, BalanceRowC>>)),
    Input("c1", "balance_sheet", FALSE, FileOf(<<BalanceRowD, BalanceRowB>>)) }

\* a balance sheet row as the seed script creates it
SeedBalanceEntry(accountCode, accountName, category, finalDebit, finalCredit) ==
  [cooperativeId |-> "c1", year |-> 2025, month |-> 6,
   accountCode |-> accountCode, accountName |-> accountName,
   category |-> category, subcategory |-> "Corriente",
   initialDebit |-> 0, initialCredit |-> 0, periodDebit |-> finalDebit,
   periodCredit |-> finalCredit, finalDebit |-> finalDebit,
   finalCredit |-> finalCredit]

\* the balance sheet of the seed script, in balance: assets on the debit
\* side, liabilities and equity on the credit side
SeedBalanceSheet ==
  << SeedBalanceEntry("1100", "Efectivo", "assets", 500, 0),
     SeedBalanceEntry("2100", "Cuentas por Pagar", "liabilities", 0, 300),
     SeedBalanceEntry("3100", "Capital Social", "equity", 0, 200) >>

\* an empty database, or one that holds the seeded balance sheet and period
InitSummary ==
  /\ \E seeded \in BOOLEAN :
       /\ entries = [m \in Modules |->
                       IF seeded /\ m = "balance_sheet" THEN SeedBalanceSheet
                       ELSE <<>>]
       /\ period = IF seeded THEN PeriodUpsertInto({}, "c1", 2025, 6) ELSE {}
  /\ uploadHistory = <<>>
  /\ activityLog = <<>>
  /\ req = [r \in Slots |-> IdleRequest]
  /\ started = 0
  /\ answered = <<>>
  /\ reply = NoReply
  /\ NoOdoo
  /\ NoChanges

NextSummary ==
  \/ \E r \in Slots : Quiet /\ \E in \in SummaryInputs : Upload(r, in)
  \/ \E r \in Slots : Step(r)
  \/ \E cooperativeId \in CoopIds \cup {""} : GetBalanceSheet(cooperativeId, 2025, 6)

\* balance sheet uploads one after the other, balance sheet queries at any
\* moment
SpecSummary == InitSummary /\ [][NextSummary]_vars

(* --------------------- one request, any source row -------------------- *)

\* a row of a module with all its fields in place
CleanRow(module) ==
  CASE module = "balance_sheet" -> BalanceRowA
    [] module = "cash_flow" -> CashRowA
    [] module = "membership_fees" -> FeeRowA
    [] module = "ratios" -> RatioRowA

\* period keys as parseInt leaves them: 0 stands for NaN
Years == {0, 1800, 2025}
Months == {0, 6, 13}

\* every module asked for every period key
KeyInputs ==
  { InputAt("c1", year, month, module, FALSE, FileOf(<<CleanRow(module)>>)) :
      year \in Years, month \in Months, module \in Modules }

\* amount cells of a fee row: numbers, an empty cell, a text that is no number
AmountCells == {"0", "300", "500", "", "n/a"}

\* status cells of a fee row: the tokens of statusMap in lower and upper case,
\* an unknown token, an inherited key, an empty cell, no status column
StatusCells == {"pagado", "Pagado", "parcial", "PENDIENTE", "atrasado", "moroso",
                "constructor", "", Undefined}

FeeRows ==
  { [FeeRowA EXCEPT !.expectedContribution = expected, !.paymentMade = paid,
                    !.status = status] :
      expected \in AmountCells, paid \in AmountCells, status \in StatusCells }

\* category cells of a balance row and of a cash-flow row
BalanceCategoryCells == {"Activo", "activo", "pasivo", "patrimonio", "ingreso",
                         "constructor", "", Undefined}
CashCategoryCells == {"operacion", "Inversion", "financiamiento", "otro",
                      "constructor"}

CategoryRows(module) ==
  IF module = "balance_sheet"
  THEN { [BalanceRowA EXCEPT !.category = c] : c \in BalanceCategoryCells }
  ELSE { [CashRowA EXCEPT !.category = c] : c \in CashCategoryCells }

\* files of one row, for the mapping of its cells
RowInputs ==
  { Input("c1", "membership_fees", FALSE, FileOf(<<row>>)) : row \in FeeRows }
  \cup { Input("c1", "balance_sheet", TRUE, FileOf(<<row>>)) :
           row \in CategoryRows("balance_sheet") }
  \cup { Input("c1", "cash_flow", FALSE, FileOf(<<row>>)) :
           row \in CategoryRows("cash_flow") }

\* files whose rows lack an identifying field, between rows that have them all
MixedFiles(module) ==
  CASE module = "balance_sheet" ->
         { <<BalanceRowA, BalanceRowNoCode, BalanceRowB>>,
           <<[BalanceRowA EXCEPT !.accountName = ""], BalanceRowB, BalanceRowA>>,
           <<[BalanceRowB EXCEPT !.accountCode = Undefined]>> }
    [] module = "cash_flow" ->
         { <<CashRowB, CashRowNoCategory, CashRowA>>,
           <<[CashRowA EXCEPT !.description = ""], CashRowB>>,
           <<[CashRowA EXCEPT !.category = Undefined]>> }
    [] module = "membership_fees" ->
         { <<FeeRowB, FeeRowNoName, FeeRowA>>,
           <<[FeeRowA EXCEPT !.memberId = ""], FeeRowB>>,
           <<[FeeRowB EXCEPT !.memberName = Undefined]>> }
    [] module = "ratios" ->
         { <<RatioRowA, RatioRowNoName, RatioRowC>>,
           <<RatioRowC, RatioRowNoValue>>,
           <<RatioRowNoValueColumn, RatioRowA>>,
           <<RatioRowC, [RatioRowA EXCEPT !.trend = "constructor"]>>,
           <<[RatioRowA EXCEPT !.name = Undefined]>> }

MixedInputs ==
  UNION { { Input("c1", module, overwrite, FileOf(rows)) :
              overwrite \in BOOLEAN, rows \in MixedFiles(module) } :
          module \in Modules }

OneInputs == KeyInputs \cup RowInputs \cup MixedInputs

\* the database as in Init; the ERP of c1 is configured, that of c2 is not
InitOne ==
  /\ InitUploads
  /\ odooConfig = [c \in CoopIds |-> IF c = "c1" THEN ConfigA ELSE NoConfig]
  /\ connections = [c \in CoopIds |-> NoConnection]
  /\ calls = [s \in Slots |-> IdleCall]
  /\ returned = NoResult
  /\ NoChanges

\* no request has arrived yet
Fresh ==
  /\ started = 0
  /\ \A s \in Slots : calls[s].op = "idle"
  /\ ~returned.sent

\* the first request of a behaviour is an upload
UploadFirst(r) == Fresh /\ \E in \in OneInputs : Upload(r, in)

\* the first request of a behaviour is an ERP fetch
FetchFirst(s) ==
  Fresh /\ \E op \in FetchOps, cooperativeId \in CoopIds :
             StartFetch(s, op, cooperativeId)

NextOne ==
  \/ \E r \in Slots : UploadFirst(r)
  \/ \E r \in Slots : Step(r)
  \/ \E r \in Slots : RatioUpsert(r)
  \/ \E s \in Slots : FetchFirst(s)
  \/ \E s \in Slots : FindUnique(s)
  \/ \E s \in Slots : CacheSet(s)
  \/ \E s \in Slots : Authenticate(s)
  \/ \E s \in Slots : \E error \in AuthErrors : AuthenticateFails(s, error)
  \/ \E s \in Slots : \E rows \in ErpRowsWide(calls[s].op) : SearchRead(s, rows)
  \/ \E s \in Slots : \E accounts \in ErpAccountsWide : SearchAccounts(s, accounts)
  \/ \E s \in Slots : ExecuteFails(s)
  \/ \E s \in Slots : OdooStorageError(s)

\* one request: an upload of any module, period key and file of the domains
\* above, or an ERP fetch with any answer of the ERP
SpecOne == InitOne /\ [][NextOne]_vars

\* every storage call a handler awaits settles: it resolves or it rejects
SpecOneLive ==
  /\ InitOne /\ [][NextOne]_vars
  /\ \A r \in Slots : WF_vars(Step(r) \/ RatioUpsert(r))

(* ------------------------------- claims ------------------------------- *)

\* worker r sends its response in this step
Responds(r) == req[r].pc # "idle" /\ req'[r].pc = "idle"

\* the most recent response
LastAnswer == answered[Len(answered)]

\* the two requests target the same (cooperativeId, year, month, module)
SameUnit(a, b) ==
  /\ a.cooperativeId = b.cooperativeId /\ a.year = b.year
  /\ a.month = b.month /\ a.module = b.module

\* the response is the DataExists rejection
IsDataExists(a) == a.res = SendError(DataExistsError(a.module), 400)

\* C1. Rejection without overwrite: when the existence check of a request
\* with overwrite=false completes and a row of its unit exists, the request is
\* answered with the DataExists client error in that step, and the financial
\* rows, the Period records and the UploadHistory are left as they were; the
\* attempt has deleted and inserted nothing and written no history row.
RejectionWithoutOverwrite ==
  [][\A r \in Slots :
       ( /\ req[r].pc = "findFirst"
         /\ req'[r] # req[r]
         /\ UnitRows(entries[req[r].module], req[r]) # <<>>
         /\ ~(Responds(r) /\ LastAnswer'.res.status = 500) )
       => /\ Responds(r)
          /\ ~req[r].overwrite
          /\ IsDataExists(LastAnswer')
          /\ LastAnswer'.deleted = 0 /\ LastAnswer'.inserted = 0
          /\ LastAnswer'.hist = <<>>
          /\ entries' = entries /\ period' = period
          /\ uploadHistory' = uploadHistory]_vars

\* C1 witness: a request was rejected with DataExists while rows of its unit
\* existed, for a module other than the seeded one, and the rows are still there.
RejectionWithoutOverwriteWitness ==
  \E i \in 1..Len(answered) :
    /\ IsDataExists(answered[i])
    /\ answered[i].module = "cash_flow"
    /\ answered[i].before # <<>>
    /\ UnitRows(entries[answered[i].module], answered[i]) = answered[i].before

\* the two requests carry the same source data for the same unit
SameIngest(a, b) == SameUnit(a, b) /\ a.file = b.file /\ a.overwrite = b.overwrite

\* C2. Idempotency: of two successful overwrite=true uploads of the same
\* source data for the same unit, handled one after the other, the later one
\* leaves the same rows in the unit as the earlier one left: the rows of the
\* batch, each once, whatever the unit held before.
IdempotentOverwrite ==
  \A i, j \in 1..Len(answered) :
    ( /\ i < j
      /\ SameIngest(answered[i], answered[j])
      /\ answered[i].overwrite
      /\ answered[i].res.success /\ answered[j].res.success )
    => /\ answered[j].after = answered[i].after
       /\ answered[j].after = Batch(answered[j])

\* C2 witness: two such uploads were answered, the first one on a unit that
\* held other rows, the second one on the rows the first one left.
IdempotentOverwriteWitness ==
  /\ Len(answered) = 2
  /\ SameIngest(answered[1], answered[2])
  /\ answered[1].overwrite
  /\ answered[1].res.success /\ answered[2].res.success
  /\ answered[1].before # <<>>
  /\ answered[1].before # answered[1].after
  /\ answered[2].before = answered[1].after
  /\ answered[2].after # <<>>

\* C3. Atomic replace: an overwrite=true upload that ends with a storage
\* failure leaves its unit with the complete old rows or the complete new
\* rows (uploads handled one after the other).
AtomicReplace ==
  \A i \in 1..Len(answered) :
    (answered[i].overwrite /\ answered[i].res.status = 500)
    => answered[i].after \in {answered[i].before, Batch(answered[i])}

\* the rows of a unit after an upload that runs alone and meets no failure
SerialRun(rows, a) ==
  IF ~a.file.attached \/ ~a.file.readable \/ Len(a.file.rows) = 0 THEN rows
  ELSE IF ~a.overwrite /\ rows # <<>> THEN rows
  ELSE (IF a.overwrite THEN <<>> ELSE rows) \o Batch(a)

\* C4. Serialized ingestion: when the first two uploads of a behaviour target
\* the same unit and none met a storage failure, the rows of the unit after
\* both are the rows one of the two sequential orders leaves.
SerializedIngestion ==
  ( /\ started = 2 /\ Len(answered) = 2 /\ Quiet
    /\ SameUnit(answered[1], answered[2])
    /\ answered[1].res.status # 500 /\ answered[2].res.status # 500 )
  => LET a == answered[1]
         b == answered[2]
         prior == IF a.seq = 1 THEN a.before ELSE b.before
     IN UnitRows(entries[a.module], a) \in
          { SerialRun(SerialRun(prior, a), b), SerialRun(SerialRun(prior, b), a) }

\* the positions from the idempotency check to the history write
CriticalPcs == {"findFirst", "deleteMany", "createMany", "periodUpsert",
                "historyCreate"}

\* C5. Mutual exclusion per unit: no two uploads for the same unit are at the
\* same time between the start of the idempotency check and the end of the
\* history write.
MutualExclusionPerUnit ==
  \A r1, r2 \in Slots :
    ( /\ r1 # r2
      /\ req[r1].pc \in CriticalPcs /\ req[r2].pc \in CriticalPcs )
    => ~SameUnit(req[r1], req[r2])

\* C6. No valid records is a failure: an upload whose file has rows but none
\* with its identifying fields is answered with an error, deletes no row and
\* writes no history row.
NoValidRecordsIsFailure ==
  \A i \in 1..Len(answered) :
    ( /\ answered[i].file.readable /\ Len(answered[i].file.rows) > 0
      /\ ValidCount(answered[i]) = 0 )
    => /\ ~answered[i].res.success
       /\ answered[i].deleted = 0
       /\ answered[i].hist = <<>>

\* C7. Source failure is audited: an upload whose file cannot be parsed is
\* answered with an error, changes no row, and a history row with
\* status=failed for its period and module is in the ledger.
SourceFailureAudited ==
  \A i \in 1..Len(answered) :
    (answered[i].file.attached /\ ~answered[i].file.readable)
    => /\ ~answered[i].res.success
       /\ answered[i].deleted = 0 /\ answered[i].inserted = 0
       /\ \E k \in 1..Len(uploadHistory) :
            /\ SameUnit(uploadHistory[k], answered[i])
            /\ uploadHistory[k].status = "failed"

\* C8. Step ordering: the history write is the last storage step of an
\* attempt: an attempt that has written its history row waits for no further
\* storage call.
HistoryWriteIsLast ==
  \A r \in Slots : req[r].pc \in StoragePcs => req[r].hist = <<>>

\* C9. Success audit count: a successful upload has written exactly one
\* history row, with status=success for its period and module, whose
\* recordsCount is the number of rows the attempt inserted and, with
\* overwrite=true, the number of rows of the unit at the response.
SuccessAuditCount ==
  \A i \in 1..Len(answered) :
    answered[i].res.success
    => /\ Len(answered[i].hist) = 1
       /\ SameUnit(answered[i].hist[1], answered[i])
       /\ answered[i].hist[1].status = "success"
       /\ answered[i].hist[1].recordsCount = answered[i].inserted
       /\ answered[i].overwrite
            => answered[i].hist[1].recordsCount = Len(answered[i].after)

\* C10. Append-only ledger: every step of the program, history queries
\* included, leaves the existing UploadHistory rows in place and unchanged;
\* the ledger only grows at its end.
AppendOnlyLedger ==
  [][ /\ Len(uploadHistory') >= Len(uploadHistory)
      /\ SubSeq(uploadHistory', 1, Len(uploadHistory)) = uploadHistory ]_vars

\* C10 witness: the ledger has grown beyond one row for the same unit and a
\* history query has just been answered from it.
AppendOnlyLedgerWitness ==
  /\ Len(uploadHistory) >= 2
  /\ SameUnit(uploadHistory[1], uploadHistory[2])
  /\ reply.sent
  /\ Len(reply.data) >= 1

\* C11. Period upsert is idempotent: no two Period records share a key; every
\* answered successful upload has the Period record of its key; and every
\* step leaves each existing Period record as it is, isActive included.
PeriodUpsertIdempotent ==
  /\ [](\A p1, p2 \in period :
          Matches(p1, p2.cooperativeId, p2.year, p2.month) => p1 = p2)
  /\ [](\A i \in 1..Len(answered) :
          answered[i].res.success
          => Cardinality({p \in period :
                            Matches(p, answered[i].cooperativeId, answered[i].year,
                                    answered[i].month)}) = 1)
  /\ [][\A p \in period : p \in period']_vars

\* C11 witness: uploads of two modules into the deactivated period have
\* succeeded; its record is still the only one, and still deactivated.
PeriodUpsertIdempotentWitness ==
  /\ Len(answered) = 2
  /\ answered[1].res.success /\ answered[2].res.success
  /\ answered[1].module # answered[2].module
  /\ Matches(answered[1], "c1", 2025, 6) /\ Matches(answered[2], "c1", 2025, 6)
  /\ [cooperativeId |-> "c1", year |-> 2025, month |-> 6, isActive |-> FALSE]
       \in period
  /\ Cardinality(period) = 1

\* a period key the system accepts
ValidKey(row) == row.year >= 1900 /\ row.month \in 1..12

\* C12. Valid period key: every financial row of the four modules, every
\* Period record and every UploadHistory row has year >= 1900 and month in
\* 1..12; a request with another key is answered with an error and has
\* reached no storage call.
ValidPeriodKey ==
  /\ \A module \in Modules : \A i \in 1..Len(entries[module]) :
        ValidKey(entries[module][i])
  /\ \A p \in period : ValidKey(p)
  /\ \A i \in 1..Len(uploadHistory) : ValidKey(uploadHistory[i])
  /\ \A r \in Slots : req[r].pc \in StoragePcs => ValidKey(req[r])
  /\ \A i \in 1..Len(answered) :
        ~ValidKey(answered[i]) => ~answered[i].res.success

\* C18. ERP configuration cache invalidation: a getConfig that starts when
\* every saveConfig that has written its row has returned, and resolves
\* before another one writes, gives the fetch the configuration the
\* OdooConfig table holds, with no uid or the uid of that configuration,
\* whatever other getConfig calls were under way during the saves.
ConfigCacheInvalidation ==
  [][\A s \in Slots :
       ( /\ calls'[s].op \in FetchOps
         /\ calls'[s].pc \in {"authenticate", "searchRead"}
         /\ calls[s].pc \in {"idle", "cacheSet"}
         /\ calls'[s].quiet )
       => LET connection == connections'[calls'[s].cooperativeId]
              saved == odooConfig[calls'[s].cooperativeId]
          IN /\ connection.config = saved
             /\ connection.uid \in {0, UidOf(saved)}]_vars

\* the response of a successful upload of the module into a unit that was
\* empty or was emptied by the upload
IsCleanUpload(a, module) ==
  /\ a.module = module /\ a.res.success
  /\ (a.overwrite \/ a.before = <<>>)

\* the status cell holds one of the four status words, in any case
RecognizedStatus(cell) ==
  ToLowerCase(cell) \in {"pagado", "parcial", "pendiente", "atrasado"}

\* debt is max(expected - paid, 0) and the status says whether debt is left
DebtConsistent(fee) ==
  /\ fee.debt = IF fee.expectedContribution - fee.paymentMade > 0
                THEN fee.expectedContribution - fee.paymentMade ELSE 0
  /\ fee.debt >= 0
  /\ fee.status = IF fee.debt = 0 THEN "up_to_date" ELSE "with_debt"

\* C13. Debt consistency: every stored fee row of an upload whose source
\* row has no recognized status word, and every fee record an ERP fetch
\* returns, has debt = max(expectedContribution - paymentMade, 0) >= 0 and
\* status up_to_date when debt = 0, with_debt when debt > 0.
DebtConsistency ==
  /\ \A i \in 1..Len(answered) :
        IsCleanUpload(answered[i], "membership_fees")
        => LET source == ValidRecords("membership_fees", answered[i].file.rows)
               stored == answered[i].after
           IN /\ Len(stored) = Len(source)
              /\ \A k \in 1..Len(source) :
                    ~RecognizedStatus(source[k].status) => DebtConsistent(stored[k])
  /\ (returned.sent /\ returned.op = "fetchMembershipFees" /\ returned.success)
       => \A k \in 1..Len(returned.records) : DebtConsistent(returned.records[k])

\* C13 witness: a fee row with an unknown status word and a payment above
\* the expected contribution was stored with no debt and up_to_date.
DebtConsistencyWitness ==
  \E i \in 1..Len(answered) :
    /\ IsCleanUpload(answered[i], "membership_fees")
    /\ Len(answered[i].file.rows) = 1
    /\ answered[i].file.rows[1].status = "moroso"
    /\ Len(answered[i].after) = 1
    /\ answered[i].after[1].paymentMade > answered[i].after[1].expectedContribution
    /\ answered[i].after[1].debt = 0
    /\ answered[i].after[1].status = "up_to_date"

\* the status a recognized status word stands for
StatusOfWord(cell) ==
  IF ToLowerCase(cell) = "pagado" THEN "up_to_date" ELSE "with_debt"

\* C14. Explicit status wins: a stored fee row whose source row carries a
\* recognized status word has the status of that word, whatever its debt,
\* and its debt is max(expectedContribution - paymentMade, 0).
ExplicitStatusWins ==
  \A i \in 1..Len(answered) :
    IsCleanUpload(answered[i], "membership_fees")
    => LET source == ValidRecords("membership_fees", answered[i].file.rows)
           stored == answered[i].after
       IN /\ Len(stored) = Len(source)
          /\ \A k \in 1..Len(source) :
                RecognizedStatus(source[k].status)
                => /\ stored[k].status = StatusOfWord(source[k].status)
                   /\ stored[k].debt =
                        IF stored[k].expectedContribution > stored[k].paymentMade
                        THEN stored[k].expectedContribution - stored[k].paymentMade
                        ELSE 0

\* C14 witness: a row marked paid with less paid than expected was stored as
\* up_to_date with its debt.
ExplicitStatusWinsWitness ==
  \E i \in 1..Len(answered) :
    /\ IsCleanUpload(answered[i], "membership_fees")
    /\ Len(answered[i].file.rows) = 1
    /\ answered[i].file.rows[1].status = "Pagado"
    /\ Len(answered[i].after) = 1
    /\ answered[i].after[1].status = "up_to_date"
    /\ answered[i].after[1].debt > 0

\* the rows of a file that have the two given fields
RowsWith(rows, f1, f2) ==
  SelectSeqBy(rows, {r \in {rows[i] : i \in 1..Len(rows)} :
                       r[f1] \notin {"", Undefined} /\ r[f2] \notin {"", Undefined}})

\* the response of an upload of the module that reached its storage calls,
\* none of which failed, into a unit that was empty or that it emptied
Ingested(a, module) ==
  /\ a.module = module /\ a.res.status # 400 /\ a.thrown # "storage"
  /\ (a.overwrite \/ a.before = <<>>)

\* C15. Unknown fee status defaults to with_debt: a fee row with its
\* memberId and memberName whose status cell holds no recognized status word
\* (an unknown word, an empty cell, no status column) is stored, and stored
\* with status with_debt, for every expected and paid amount.
UnknownStatusIsWithDebt ==
  \A i \in 1..Len(answered) :
    Ingested(answered[i], "membership_fees")
    => LET source == RowsWith(answered[i].file.rows, "memberId", "memberName")
           stored == answered[i].after
       IN /\ answered[i].res.success
          /\ Len(stored) = Len(source)
          /\ \A k \in 1..Len(source) :
                ~RecognizedStatus(source[k].status)
                => stored[k].status = "with_debt"

\* the category a word of the balance table, of the cash-flow table or an
\* account type of the ERP stands for; "" for a word of none of the tables
BalanceWord(cell) ==
  CASE ToLowerCase(cell) = "activo" -> "assets"
    [] ToLowerCase(cell) = "pasivo" -> "liabilities"
    [] ToLowerCase(cell) = "patrimonio" -> "equity"
    [] OTHER -> ""
CashFlowWord(cell) ==
  CASE ToLowerCase(cell) = "operacion" -> "operating"
    [] ToLowerCase(cell) = "inversion" -> "investing"
    [] ToLowerCase(cell) = "financiamiento" -> "financing"
    [] OTHER -> ""
AccountTypeWord(type) ==
  CASE type \in {"asset_receivable", "asset_cash", "asset_current",
                 "asset_non_current", "asset_prepayments", "asset_fixed"} -> "assets"
    [] type \in {"liability_payable", "liability_credit_card", "liability_current",
                 "liability_non_current"} -> "liabilities"
    [] type \in {"equity", "equity_unaffected"} -> "equity"
    [] OTHER -> ""

\* C16. Unknown category defaults: every balance row with its account code
\* and name is stored, with the category of its word or, for a word outside
\* the table, assets; every cash-flow row with a description and a category
\* word is stored, with the category of its word or, for a word outside the
\* table, operating; a balance record of an ERP fetch has the category of its
\* account type or, for a type outside the table, assets. Every category is
\* a member of the enum of its module.
UnknownCategoryDefaults ==
  /\ \A i \in 1..Len(answered) :
        Ingested(answered[i], "balance_sheet")
        => LET source == RowsWith(answered[i].file.rows, "accountCode", "accountName")
               stored == answered[i].after
           IN /\ answered[i].res.success
              /\ Len(stored) = Len(source)
              /\ \A k \in 1..Len(source) :
                    /\ stored[k].category \in {"assets", "liabilities", "equity"}
                    /\ stored[k].category =
                         IF BalanceWord(source[k].category) # ""
                         THEN BalanceWord(source[k].category) ELSE "assets"
  /\ \A i \in 1..Len(answered) :
        Ingested(answered[i], "cash_flow")
        => LET source == RowsWith(answered[i].file.rows, "description", "category")
               stored == answered[i].after
           IN /\ answered[i].res.success
              /\ Len(stored) = Len(source)
              /\ \A k \in 1..Len(source) :
                    /\ stored[k].category \in {"operating", "investing", "financing"}
                    /\ stored[k].category =
                         IF CashFlowWord(source[k].category) # ""
                         THEN CashFlowWord(source[k].category) ELSE "operating"
  /\ (returned.sent /\ returned.op = "fetchBalanceSheet" /\ returned.success)
       => \A k \in 1..Len(returned.records) :
            LET record == returned.records[k]
            IN /\ record.category \in {"assets", "liabilities", "equity"}
               /\ record.category =
                    IF AccountTypeWord(record.subcategory) # ""
                    THEN AccountTypeWord(record.subcategory) ELSE "assets"

\* the two identifying fields of a row of each module
IdentifyingFields(module) ==
  CASE module = "balance_sheet" -> <<"accountCode", "accountName">>
    [] module = "cash_flow" -> <<"description", "category">>
    [] module = "membership_fees" -> <<"memberId", "memberName">>
    [] module = "ratios" -> <<"name", "value">>

RECURSIVE UpsertAll(_, _)
\* the ratio table after the rows have been written one by one, in order
UpsertAll(table, rows) ==
  IF rows = <<>> THEN table
  ELSE UpsertAll(RatioUpsertInto(table, Head(rows)), Tail(rows))

\* C17. Row-level rejection: an upload that reached its storage calls, none
\* of which threw, succeeds, and the rows it leaves in a unit that was empty
\* or that it emptied are the rows of the file that have both identifying
\* fields of the module, normalized, in the order of the file (for ratios:
\* written one by one in that order); the rows lacking a field are left out.
RowLevelRejection ==
  \A i \in 1..Len(answered) :
    LET a == answered[i]
    IN ( /\ a.res.status # 400 /\ a.thrown = ""
         /\ (a.overwrite \/ a.before = <<>>) )
       => LET fields == IdentifyingFields(a.module)
              source == RowsWith(a.file.rows, fields[1], fields[2])
              batch == [k \in 1..Len(source) |->
                          ToEntry(a.module, a.cooperativeId, a.year, a.month,
                                  source[k])]
          IN /\ a.res.success
             /\ a.inserted = Len(source)
             /\ a.after = IF a.module = "ratios" THEN UpsertAll(<<>>, batch)
                          ELSE batch

\* the row is the ratio of the given name of the given period
IsRatio(row, data) ==
  Matches(row, data.cooperativeId, data.year, data.month) /\ row.name = data.name

\* C19. Ratio uniqueness: the FinancialRatio table never holds two rows for
\* the same (cooperativeId, year, month, name); after every completed write
\* of a ratio the one row of its key and name is the row written, and the
\* rows of the other ratios are as before; a step that writes no ratio
\* brings no new row.
RatioUniqueness ==
  /\ [](\A i, j \in 1..Len(entries["ratios"]) :
          IsRatio(entries["ratios"][i], entries["ratios"][j]) => i = j)
  /\ [][\A r \in Slots :
          (req[r].pc = "ratioUpsert" /\ req'[r].inserted = req[r].inserted + 1)
          => LET data == Batch(req[r])[req'[r].inserted]
                 before == entries["ratios"]
                 after == entries'["ratios"]
             IN /\ Cardinality({i \in 1..Len(after) : IsRatio(after[i], data)}) = 1
                /\ \A i \in 1..Len(after) : IsRatio(after[i], data) => after[i] = data
                /\ SelectSeqBy(after, {row \in {after[i] : i \in 1..Len(after)} :
                                         ~IsRatio(row, data)})
                   = SelectSeqBy(before, {row \in {before[i] : i \in 1..Len(before)} :
                                            ~IsRatio(row, data)})]_vars
  /\ [][(\A r \in Slots : req'[r].inserted = req[r].inserted \/ req[r].pc # "ratioUpsert")
        => \A i \in 1..Len(entries'["ratios"]) :
             \E j \in 1..Len(entries["ratios"]) :
               entries'["ratios"][i] = entries["ratios"][j]]_vars

\* C19 witness: two uploads that both wrote the ratio Liquidez of one period,
\* one of them twice in its file, have succeeded, and the table holds one
\* row for it, with the value written last in a file.
RatioUniquenessWitness ==
  /\ Len(answered) = 2
  /\ answered[1].res.success /\ answered[2].res.success
  /\ \E i \in 1..2 : answered[i].file.rows = <<RatioRowA, RatioRowB>>
  /\ \E i \in 1..2 : answered[i].file.rows = <<RatioRowA>>
  /\ Cardinality({i \in 1..Len(entries["ratios"]) :
                    /\ Matches(entries["ratios"][i], "c1", 2025, 6)
                    /\ entries["ratios"][i].name = "Liquidez"}) = 1

\* the ratio rows of the same name for the calendar month before the row's
PriorRatios(table, row) ==
  LET prevMonth == IF row.month = 1 THEN 12 ELSE row.month - 1
      prevYear == IF row.month = 1 THEN row.year - 1 ELSE row.year
  IN {table[i] : i \in {j \in 1..Len(table) :
                          /\ Matches(table[j], row.cooperativeId, prevYear, prevMonth)
                          /\ table[j].name = row.name}}

\* the trend of a value against the prior one, with a tolerance of 0.01
TrendAgainst(current, previous) ==
  LET diff == IF current >= previous THEN current - previous ELSE previous - current
  IN IF 100 * diff <= 1 THEN "stable"
     ELSE IF current > previous THEN "up" ELSE "down"

\* C20. Trend correctness: every stored ratio has the trend stable when no
\* ratio of its name is stored for the preceding calendar month (December of
\* the year before for January) or when its value differs from that prior
\* value by at most 0.01, and otherwise up when its value is greater than the
\* prior one and down when it is smaller.
TrendCorrectness ==
  \A i \in 1..Len(entries["ratios"]) :
    LET row == entries["ratios"][i]
        prior == PriorRatios(entries["ratios"], row)
    IN /\ prior = {} => row.trend = "stable"
       /\ \A p \in prior : row.trend = TrendAgainst(row.value, p.value)

\* C21. NoBalanceData: a ratio upload for a period that has no balance sheet
\* row is answered with an error, leaves the ratio rows of its period as they
\* were, and a history row with status=failed for its period and module
\* ratios is in the ledger.
NoBalanceData ==
  \A i \in 1..Len(answered) :
    ( /\ answered[i].module = "ratios"
      /\ ValidCount(answered[i]) > 0
      /\ FindMany(entries["balance_sheet"], answered[i].cooperativeId,
                  answered[i].year, answered[i].month) = <<>> )
    => /\ ~answered[i].res.success
       /\ answered[i].inserted = 0
       /\ \E k \in 1..Len(uploadHistory) :
            /\ SameUnit(uploadHistory[k], answered[i])
            /\ uploadHistory[k].status = "failed"

RECURSIVE SumOver(_, _)
\* the sum of a number taken from each row of a set of rows of a table,
\* given as the set of their positions
SumOver(table, positions) ==
  IF positions = {} THEN 0
  ELSE LET i == CHOOSE k \in positions : TRUE
       IN table[i] + SumOver(table, positions \ {i})

\* the sum of finalDebit - finalCredit over the rows of a category of a period
NetDebit(table, cooperativeId, year, month, category) ==
  SumOver([i \in 1..Len(table) |-> table[i].finalDebit - table[i].finalCredit],
          {i \in 1..Len(table) : /\ Matches(table[i], cooperativeId, year, month)
                                  /\ table[i].category = category})

\* C22. Balance summary sum identity: the summary a balance sheet query
\* reports for a period has totalAssets equal to the sum of finalDebit -
\* finalCredit over exactly the assets rows stored for that period, and
\* totalLiabilities and totalEquity equal to the sum of finalCredit -
\* finalDebit over exactly its liabilities and its equity rows; isBalanced
\* says whether totalAssets equals totalLiabilities + totalEquity; the query
\* changes no row, and an upload is never answered with an error because its
\* rows do not balance: one that replaces its unit and meets no storage
\* failure succeeds and stores its batch.
SummarySumIdentity ==
  /\ [](reply.sent /\ reply.data[1].success
        => LET d == reply.data[1]
               table == entries["balance_sheet"]
           IN /\ d.summary.totalAssets
                 = NetDebit(table, d.cooperativeId, d.year, d.month, "assets")
              /\ d.summary.totalLiabilities
                 = 0 - NetDebit(table, d.cooperativeId, d.year, d.month, "liabilities")
              /\ d.summary.totalEquity
                 = 0 - NetDebit(table, d.cooperativeId, d.year, d.month, "equity")
              /\ d.summary.isBalanced
                 <=> (d.summary.totalAssets
                      = d.summary.totalLiabilities + d.summary.totalEquity))
  /\ [][reply'.sent => entries' = entries /\ period' = period]_vars
  /\ [](\A i \in 1..Len(answered) :
          (answered[i].overwrite /\ answered[i].thrown = "")
          => /\ answered[i].res.success
             /\ answered[i].inserted = Len(Batch(answered[i])))

\* C22 witness: after the upload of the file that does not balance has
\* succeeded, a query reports its three totals and isBalanced = false.
SummarySumIdentityWitness ==
  /\ answered # <<>>
  /\ LastAnswer.res.success
  /\ LastAnswer.file.rows = <<BalanceRowA, BalanceRowB, BalanceRowC>>
  /\ reply.sent /\ reply.data[1].success
  /\ Len(reply.data[1].entries) = 3
  /\ reply.data[1].summary
     = [totalAssets |-> 500, totalLiabilities |-> -300, totalEquity |-> -300,
        isBalanced |-> FALSE]

\* the UploadHistory rows of a cooperative that satisfy a condition given as
\* the set of the statuses wanted, most recently written first
MostRecentFirst(cooperativeId, statuses) ==
  LET positions == {i \in 1..Len(uploadHistory) :
                      /\ uploadHistory[i].cooperativeId = cooperativeId
                      /\ uploadHistory[i].status \in statuses}
      nth[k \in 0..Cardinality(positions)] ==
        \* the position of the k-th most recent of them
        IF k = 0 THEN Len(uploadHistory) + 1
        ELSE CHOOSE i \in positions :
               /\ i < nth[k - 1]
               /\ \A j \in positions : j < nth[k - 1] => j <= i
  IN [k \in 1..Cardinality(positions) |-> uploadHistory[nth[k]]]

\* C23. History queries: a listing asked for a cooperative with a limit
\* returns rows of that cooperative only, the most recent first without a
\* gap, and at most limit of them; the latest-success lookup returns the most
\* recently written row of the cooperative with status=success, or nothing
\* when it has none.
HistoryQueries ==
  /\ [][\A cooperativeId \in CoopIds : \A limit \in HistoryLimits :
          GetUploadHistory(cooperativeId, limit)
          => LET all == MostRecentFirst(cooperativeId, {"success", "failed", "partial"})
                 data == reply'.data
             IN /\ Len(data) <= Len(all)
                /\ data = SubSeq(all, 1, Len(data))
                /\ limit >= 0 => Len(data) <= limit]_vars
  /\ [][\A cooperativeId \in CoopIds :
          GetLatestUpload(cooperativeId)
          => LET all == MostRecentFirst(cooperativeId, {"success"})
             IN reply'.data = SubSeq(all, 1, IF all = <<>> THEN 0 ELSE 1)]_vars

\* the outcomes of an upload, by its response
Completed(a) == a.res.success /\ a.res.status = 200 /\ a.res.error = ""
Rejected(a) == ~a.res.success /\ a.res.status = 400 /\ IsDataExists(a)
Failed(a) ==
  /\ ~a.res.success /\ a.res.status \in {400, 500}
  /\ a.res.error # "" /\ ~IsDataExists(a)

\* C24. Every ingestion request terminates in exactly one outcome: an upload
\* in flight always reaches its end; every upload that has arrived is in
\* flight or has sent exactly one response, never two and never none; the
\* response is added in the step that ends the request; and every response
\* is exactly one of Completed, Rejected (DataExists) and Failed, whatever
\* the input and whichever storage call throws.
OneOutcome ==
  /\ \A r \in Slots : (req[r].pc # "idle") ~> (req[r].pc = "idle")
  /\ [](/\ started = Len(answered) + Cardinality({r \in Slots : req[r].pc # "idle"})
        /\ \A i, j \in 1..Len(answered) : answered[i].seq = answered[j].seq => i = j)
  /\ [][\A r \in Slots :
          Responds(r) => /\ answered' = Respond(answered, answered'[Len(answered')])
                         /\ answered'[Len(answered')].seq = req[r].seq]_vars
  /\ [](\A i \in 1..Len(answered) :
          /\ Completed(answered[i]) \/ Rejected(answered[i]) \/ Failed(answered[i])
          /\ ~(Completed(answered[i]) /\ Rejected(answered[i]))
          /\ ~(Completed(answered[i]) /\ Failed(answered[i]))
          /\ ~(Rejected(answered[i]) /\ Failed(answered[i])))

\* C24 witness: a storage call of an upload has thrown after rows were
\* written, and the upload has ended with the one response Failed.
OneOutcomeWitness ==
  /\ Quiet /\ started = 1 /\ Len(answered) = 1
  /\ LastAnswer.thrown = "storage" /\ LastAnswer.inserted > 0
  /\ Failed(LastAnswer) /\ LastAnswer.res.status = 500

\* the fields of the records a fetch returns
RecordFields(op) ==
  CASE op = "fetchBalanceSheet" ->
         {"accountCode", "accountName", "category", "subcategory", "initialDebit",
          "initialCredit", "periodDebit", "periodCredit", "finalDebit",
          "finalCredit", "odooId"}
    [] op = "fetchCashFlow" -> {"description", "amount", "category", "odooId"}
    [] op = "fetchMembershipFees" ->
         {"memberId", "memberName", "expectedContribution", "paymentMade", "debt",
          "status", "odooPartnerId"}

\* the positions of a fetch at which it waits for the ERP
RemotePcs == {"authenticate", "searchRead", "searchAccounts"}

\* C25. ERP source result shape: every fetch that ends returns a result for
\* its operation and cooperative, which is either success with no error and
\* records of the fetch's shape, or a failure with no record and a non-empty
\* error; a fetch whose configuration lookup finds no row returns the failure
\* 'Odoo not configured'; no fetch waits for the ERP for a cooperative
\* without a configuration, and the result for such a cooperative is always a
\* failure.
FetchResultShape ==
  /\ [][\A s \in Slots :
          (calls[s].op \in FetchOps /\ calls'[s].op = "idle")
          => /\ returned'.sent
             /\ returned'.op = calls[s].op
             /\ returned'.cooperativeId = calls[s].cooperativeId
             /\ \/ /\ returned'.success /\ returned'.error = ""
                   /\ \A i \in 1..Len(returned'.records) :
                        DOMAIN returned'.records[i] = RecordFields(calls[s].op)
                \/ /\ ~returned'.success /\ returned'.records = <<>>
                   /\ returned'.error # ""
             /\ (calls[s].pc = "cacheSet" /\ calls[s].config = NoConfig)
                => returned' = FetchResult(calls[s].op, calls[s].cooperativeId,
                                           FALSE, <<>>, "Odoo not configured")]_vars
  /\ [](\A s \in Slots :
          calls[s].pc \in RemotePcs => odooConfig[calls[s].cooperativeId] # NoConfig)
  /\ []((returned.sent /\ returned.op \in FetchOps
         /\ odooConfig[returned.cooperativeId] = NoConfig)
        => ~returned.success)

\* C25 witness: a fetch of the membership fees for the cooperative without a
\* configuration has returned 'Odoo not configured'.
FetchResultShapeWitness ==
  returned = FetchResult("fetchMembershipFees", "c2", FALSE, <<>>,
                         "Odoo not configured")

\* a row of the module of the request with exactly its key is stored
UnitHasRow(q) ==
  \E i \in 1..Len(entries[q.module]) :
    Matches(entries[q.module][i], q.cooperativeId, q.year, q.month)

\* C26. Module rows are the authority for existence: when the existence check
\* of an upload completes, the upload is rejected with DataExists in that
\* step if and only if a row of its module with exactly its cooperative, year
\* and month is stored (the check is made only with overwrite=false); and
\* every DataExists rejection is of an upload with overwrite=false that found
\* such a row on arrival: a Period record of the key, rows of another module
\* for the key, and rows of the module for another period or cooperative
\* cause no rejection.
ModuleRowsAreAuthority ==
  /\ [][\A r \in Slots :
          ( /\ req[r].pc = "findFirst" /\ req'[r].pc # "findFirst"
            /\ ~(Responds(r) /\ answered'[Len(answered')].thrown = "storage") )
          => /\ ~req[r].overwrite
             /\ (Responds(r) /\ IsDataExists(answered'[Len(answered')]))
                <=> UnitHasRow(req[r])]_vars
  /\ [](\A i \in 1..Len(answered) :
          IsDataExists(answered[i])
          => ( /\ ~answered[i].overwrite /\ answered[i].before # <<>>
                /\ answered[i].res.status = 400 /\ answered[i].thrown = ""
                /\ answered[i].deleted = 0 /\ answered[i].inserted = 0 ))

\* C26 witness: with the Period record of the key, cash flow rows for the key
\* and balance sheet rows of another cooperative and of another month all
\* present, a balance sheet upload with overwrite=false into the empty unit
\* has succeeded.
ModuleRowsAreAuthorityWitness ==
  /\ answered # <<>>
  /\ LastAnswer.module = "balance_sheet" /\ ~LastAnswer.overwrite
  /\ LastAnswer.before = <<>> /\ LastAnswer.res.success
  /\ LastAnswer.seq = 2
  /\ FindMany(entries["cash_flow"], "c1", 2025, 6) # <<>>
  /\ FindMany(entries["balance_sheet"], "c2", 2025, 6) # <<>>
  /\ FindMany(entries["balance_sheet"], "c1", 2025, 7) # <<>>
  /\ \E p \in period : Matches(p, "c1", 2025, 6)

\* the rows of a table that do not belong to the unit of a request
OutsideUnit(table, q) ==
  SelectSeqBy(table, {row \in {table[i] : i \in 1..Len(table)} :
                        ~Matches(row, q.cooperativeId, q.year, q.month)})

\* C27. Frame of an ingestion: every step that changes a table of financial
\* rows is the delete or an insert of an upload of that module, and it leaves
\* the rows of every other cooperative and every other period in that table
\* as they were, in their order; the tables of the other modules do not
\* change in that step; this holds whether the upload then completes, is
\* rejected or fails.
IngestionFrame ==
  [][\A m \in Modules :
       entries'[m] # entries[m]
       => \E r \in Slots :
            /\ req[r].pc \in {"deleteMany", "createMany", "ratioUpsert"}
            /\ req'[r] # req[r]
            /\ req[r].module = m
            /\ OutsideUnit(entries'[m], req[r]) = OutsideUnit(entries[m], req[r])
            /\ \A m2 \in Modules \ {m} : entries'[m2] = entries[m2]]_vars

\* C27 witness: an upload with overwrite=true has deleted the rows of its
\* unit and inserted its own, and the rows of the other cooperative and of
\* the next month are still in the table.
IngestionFrameWitness ==
  /\ answered # <<>>
  /\ LastAnswer.overwrite /\ LastAnswer.res.success
  /\ LastAnswer.deleted > 0 /\ LastAnswer.inserted > 0
  /\ OutsideUnit(entries["balance_sheet"], LastAnswer)
     = << ToEntry("balance_sheet", "c2", 2025, 6, BalanceRowA),
          ToEntry("balance_sheet", "c1", 2025, 7, BalanceRowB) >>

RECURSIVE AmountOf(_, _)
\* the sum of the amounts a file gives for the accounts of a category: the
\* number a cell reads as, 0 for a cell that is no number
AmountOf(rows, words) ==
  IF rows = <<>> THEN 0
  ELSE AmountOf(Tail(rows), words)
       + (IF ToLowerCase(Head(rows).category) \in words
          THEN (IF Head(rows).amount \in DOMAIN NumTable
                THEN NumTable[Head(rows).amount] ELSE 0)
          ELSE 0)

\* C28. File-sourced balance mapping: every balance sheet row a successful
\* upload has left in its unit has finalDebit equal to the amount of its file
\* row as a number (0 when it is no number) and initialDebit, initialCredit,
\* periodDebit, periodCredit and finalCredit equal to 0, whatever its
\* category; and the summary reported for the unit after the upload has
\* totalLiabilities and totalEquity equal to the negated sums of the file's
\* liability and equity amounts, and totalAssets equal to the sum of its asset
\* amounts.
FileSourcedBalance ==
  /\ \A i \in 1..Len(answered) :
       (answered[i].module = "balance_sheet" /\ answered[i].res.success)
       => LET valid == ValidRecords("balance_sheet", answered[i].file.rows)
              rows == answered[i].after
          IN /\ Len(rows) = Len(valid)
             /\ \A k \in 1..Len(rows) :
                  /\ rows[k].finalDebit
                     = (IF valid[k].amount \in DOMAIN NumTable
                        THEN NumTable[valid[k].amount] ELSE 0)
                  /\ rows[k].initialDebit = 0 /\ rows[k].initialCredit = 0
                  /\ rows[k].periodDebit = 0 /\ rows[k].periodCredit = 0
                  /\ rows[k].finalCredit = 0
  /\ ( /\ Quiet /\ answered # <<>> /\ reply.sent /\ reply.data[1].success
       /\ LastAnswer.res.success
       /\ Matches(LastAnswer, reply.data[1].cooperativeId, reply.data[1].year,
                  reply.data[1].month) )
     => LET valid == ValidRecords("balance_sheet", LastAnswer.file.rows)
            summary == reply.data[1].summary
        IN /\ summary.totalAssets = AmountOf(valid, {"activo"})
           /\ summary.totalLiabilities = 0 - AmountOf(valid, {"pasivo"})
           /\ summary.totalEquity = 0 - AmountOf(valid, {"patrimonio"})

\* C28 witness: the file with a liability of 300 and a liability whose amount
\* is no number has been uploaded into the empty unit, and the summary then
\* reported has totalLiabilities = -300.
FileSourcedBalanceWitness ==
  /\ Quiet /\ answered # <<>> /\ LastAnswer.res.success
  /\ LastAnswer.file.rows = <<BalanceRowD, BalanceRowB>>
  /\ \E k \in 1..Len(LastAnswer.after) :
       LastAnswer.after[k].accountCode = "2102" /\ LastAnswer.after[k].finalDebit = 0
  /\ reply.sent /\ reply.data[1].success /\ reply.data[1].cooperativeId = "c1"
  /\ reply.data[1].summary.totalLiabilities = -300

\* the rows of a sequence, as a set
RowSet(rows) == {rows[k] : k \in 1..Len(rows)}

\* the last row of each name in a batch of ratio rows
LastByName(batch) ==
  {batch[k] : k \in {j \in 1..Len(batch) :
                       \A l \in (j + 1)..Len(batch) : batch[l].name # batch[j].name}}

\* C29. Ratio upload merge-or-replace: a ratio upload is never answered with
\* DataExists; after a successful upload with overwrite=false the ratios of
\* the period are the ones it had before with every row of a name of the file
\* replaced by the file's row of that name, and the file's rows of new names;
\* after a successful upload with overwrite=true they are exactly the file's
\* rows that have a name and a value.
RatioMergeOrReplace ==
  \A i \in 1..Len(answered) :
    LET a == answered[i]
        valid == RowsWith(a.file.rows, "name", "value")
        batch == [k \in 1..Len(valid) |->
                    ToEntry("ratios", a.cooperativeId, a.year, a.month, valid[k])]
        names == {batch[k].name : k \in 1..Len(batch)}
    IN a.module = "ratios"
       => /\ ~IsDataExists(a)
          /\ a.res.success
             => RowSet(a.after)
                = LastByName(batch)
                  \cup (IF a.overwrite THEN {}
                        ELSE {row \in RowSet(a.before) : row.name \notin names})

\* C30. Admin self-protection: no role change changes the role of the user
\* who asked for it, no status change deactivates the user who asked for it,
\* and at least one user is an active admin in every state reached from a
\* state with an active admin by role and status change requests, each
\* admitted as an active admin, interleaved in any way.
AdminSelfProtection ==
  /\ [][\A s \in Slots :
          (sessions[s].pc = "update" /\ sessions'[s].pc = "activityCreate")
          => /\ users'[sessions[s].actor].role = users[sessions[s].actor].role
             /\ users[sessions[s].actor].status = "active"
                => users'[sessions[s].actor].status = "active"]_vars
  /\ [](\E u \in UserIds : users[u].role = "admin" /\ users[u].status = "active")

====
